---------------------------- MODULE Spec2Model ----------------------------
(***************************************************************************)
(* A model of the setup-instruction generator of flowglad-next's MCP       *)
(* tools: the orchestrator getSetupInstructions, the analysis-delegation   *)
(* tool analyzeCodebase, and the fact extractor extractCodebaseInfo.       *)
(* The pure functions (extractCodebaseInfo, applyTemplateReplacements,     *)
(* resolveSnippets, analyzePricingModel with                               *)
(* constructPricingModelInstructions) are also driven on their own, each   *)
(* by a specification that draws its arguments from a bounded set.         *)
(*                                                                         *)
(* Text is modelled as a sequence of tokens.  A token is an atomic piece   *)
(* of text (a heading, a question prompt, a word, a newline); a credential *)
(* is a sequence of single characters.  String operations (trim,           *)
(* startsWith, substring, indexOf, the regular expressions of the          *)
(* extractor) are computed over these sequences.                           *)
(***************************************************************************)
EXTENDS Integers, Sequences, FiniteSets, TLC

VARIABLES
    \* ---- one invocation of a tool (Spec) ----
    tool,                   \* the tool invoked: "getSetupInstructions" | "analyzeCodebase"
    apiKey,                 \* callbackConstructor's argument
    authToken,              \* extra.authInfo.token of the invocation, or Undefined
    envKey,                 \* core.envVariable('MCP_API_KEY'), or Undefined
    fileContents,           \* args.fileContents: Undefined or a sequence of files
    projectRoot,            \* args.projectRoot (analyzeCodebase)
    codebaseAnalysis,       \* args.codebaseAnalysis: Undefined or a text
    pricingComponents,      \* args.pricingComponents, as JSON.stringify renders it
    manualProjectStructure, \* args.projectStructure, read when generation starts
    manualStackDetails,     \* args.stackDetails, read when generation starts
    pc,                     \* the invocation's position
    bearerToken,            \* getSetupInstructions: the resolved credential
    acBearerToken,          \* analyzeCodebase: the resolved credential
    analyzeResult,          \* what the nested analyzeCodebase call returned
    codebaseInfo,
    finalProjectStructure,
    finalStackDetails,
    pricingModelData,
    pricingModelYAML,
    pricingModelAnalysis,
    generationTemplate,
    snippets,
    templateReplacements,
    customizedInstructions,
    pricingModelInstructions,
    result,                 \* the text returned to the caller, or Undefined
    thrown,                 \* the error raised to the caller, or Undefined
    console,                \* console.warn / console.error calls, in order
    trace,                  \* the steps taken, in order (history)
    \* ---- extractCodebaseInfo, driven on its own (SpecExtract) ----
    xpc,            \* "build" | "called"
    xdoc,           \* the codebaseAnalysis argument: Undefined or a text
    xdefaultPaths,  \* the defaultPaths argument: a partial record of paths
    xinfo,          \* the record returned by the last call, or Undefined
    xprev,          \* the record returned by the call before, or Undefined
    xcalls,         \* number of calls made with (xdoc, xdefaultPaths)
    \* ---- applyTemplateReplacements on strings of characters (SpecApply) ----
    atemplate,      \* the template argument: a string of characters
    areplacements,  \* the replacements argument: entries <<key, value>> in
                    \* the order Object.entries yields them
    aresults,       \* the strings returned so far: the first from the
                    \* template, the next from the string before it
    \* ---- resolveSnippets, driven on its own (SpecSnippets) ----
    spc,            \* "build" | "called"
    slibrary,       \* the snippets argument: what JSON.parse gave
    sframeworkKey,  \* the frameworkKey argument
    sresolved,      \* what the call returned or threw, or Undefined
    \* ---- analyzePricingModel and constructPricingModelInstructions (SpecPricing) ----
    ppc,            \* "build" | "analyzed" | "composed"
    pdata,          \* the pricingModelData argument
    panalysis,      \* what analyzePricingModel returned, or NullObject
    pinstructions,  \* what constructPricingModelInstructions returned, or Undefined
    \* ---- the three classifiers, driven on their own (SpecClassify) ----
    ktext,          \* the free text classified
    kkeys           \* the keys returned so far, by classifier

inputs ==
    <<tool, apiKey, authToken, envKey, fileContents, projectRoot,
      codebaseAnalysis, pricingComponents>>

locals ==
    <<manualProjectStructure, manualStackDetails, bearerToken, acBearerToken,
      analyzeResult, codebaseInfo, finalProjectStructure, finalStackDetails,
      pricingModelData, pricingModelYAML, pricingModelAnalysis,
      generationTemplate, snippets, templateReplacements,
      customizedInstructions, pricingModelInstructions>>

ovars == <<inputs, locals, pc, result, thrown, console, trace>>

xvars == <<xpc, xdoc, xdefaultPaths, xinfo, xprev, xcalls>>

avars == <<atemplate, areplacements, aresults>>

\* the variables of the functions that are driven on their own
svars == <<spc, slibrary, sframeworkKey, sresolved>>

pvars == <<ppc, pdata, panalysis, pinstructions>>

kvars == <<ktext, kkeys>>

fvars == <<xvars, avars, svars, pvars, kvars>>

vars == <<ovars, fvars>>

(***************************************************************************)
(* Bounds of the model.                                                    *)
(***************************************************************************)
MaxBlocks == 2
MaxCalls == 2

(***************************************************************************)
(* JavaScript values.                                                      *)
(***************************************************************************)
\* JavaScript's undefined: a value that is no text (its token is no token of any text).
Undefined == <<"\\undefined">>

\* null (or not yet assigned) where the variable otherwise holds an object
NullObject == [null |-> TRUE]

NL == "\n"
SP == " "
DASH == "- "

IsSpace(t) == t \in {NL, SP, "\t"}

Min(a, b) == IF a <= b THEN a ELSE b

\* s.slice(i - 1): the text from the i-th token on
From(s, i) == SubSeq(s, i, Len(s))

\* The least member of a set of positions, 0 for the empty set (no match).
Least(S) == IF S = {} THEN 0 ELSE CHOOSE i \in S : \A j \in S : i <= j

\* String.prototype.trim
Trim(s) ==
    LET NonSpace == {i \in 1..Len(s) : ~IsSpace(s[i])}
    IN IF NonSpace = {} THEN <<>>
       ELSE SubSeq(s, Least(NonSpace),
                   CHOOSE i \in NonSpace : \A j \in NonSpace : j <= i)

\* JavaScript truthiness of an optional string
Truthy(s) == s # Undefined /\ s # <<>>

(***************************************************************************)
(* Case and keywords.  CaseFold gives the representative of a token's      *)
(* class under case-insensitive comparison (toLowerCase, the /i flag).     *)
(***************************************************************************)
CaseFold(t) ==
    CASE t \in {"Next.js", "NEXT.JS"} -> "next.js"
      [] t \in {"React", "REACT"} -> "react"
      [] t \in {"Clerk", "CLERK"} -> "clerk"
      [] t \in {"Supabase"} -> "supabase"
      [] t \in {"NextAuth.js"} -> "nextauth.js"
      [] t \in {"TypeScript"} -> "typescript"
      [] t \in {"JavaScript"} -> "javascript"
      [] t = "App Router" -> "app router"
      [] t = "Pages Router" -> "pages router"
      [] t = "what language is the server written in?"
             -> "What language is the server written in?"
      [] t = "## 2. file structure & paths" -> "## 2. File Structure & Paths"
      [] t = "**b2b**: businesses" -> "**B2B**: Businesses"
      [] OTHER -> t

\* The keywords that occur in the lower-cased token.
KeywordsOf(t) ==
    LET f == CaseFold(t)
    IN CASE f = "next.js" -> {"next.js"}
         [] f = "nextjs" -> {"nextjs"}
         [] f = "react" -> {"react"}
         [] f = "clerk" -> {"clerk"}
         [] f = "supabase" -> {"supabase"}
         [] f = "clerk + supabase" -> {"clerk", "supabase"}
         [] f = "nextauth.js" -> {"nextauth"}
         [] f = "next-auth" -> {"next-auth"}
         [] f = "src/app" -> {"src/app"}
         [] f = "src/app/api" -> {"src/app", "app/"}
         [] f = "src\\app" -> {"src\\app"}
         [] f = "src/pages" -> {"src/pages"}
         [] f = "src\\pages" -> {"src\\pages"}
         [] f = "app router" -> {"app router"}
         [] f = "app/" -> {"app/"}
         [] f = "pages router" -> {"pages router"}
         [] f = "pages/" -> {"pages/"}
         [] OTHER -> {}

\* s.toLowerCase().includes(kw)
IncludesLower(s, kw) == \E i \in 1..Len(s) : kw \in KeywordsOf(s[i])

\* s.includes(word), case-sensitive
Includes(s, word) == \E i \in 1..Len(s) : s[i] = word

\* s.indexOf(marker), case-sensitive: the 1-based position, 0 when absent
\* (JavaScript: 0-based, -1 when absent).
IndexOf(s, marker) == Least({i \in 1..Len(s) : s[i] = marker})

(***************************************************************************)
(* The regular expressions of extractCodebaseInfo, over token texts.       *)
(***************************************************************************)
\* The position of the first newline at or after i, Len(s) + 1 when none.
LineEnd(s, i) ==
    LET nls == {j \in i..Len(s) : s[j] = NL}
    IN IF nls = {} THEN Len(s) + 1 ELSE Least(nls)

\* /<prompt>[^\n]*\n- ([^\n]+)/i matches with the prompt at position i:
\* the rest of the prompt's line, a newline, "- " and at least one character.
PromptMatchesAt(s, prompt, i) ==
    /\ CaseFold(s[i]) = CaseFold(prompt)
    /\ LET e == LineEnd(s, i + 1)
       IN e + 2 <= Len(s) /\ s[e + 1] = DASH /\ s[e + 2] # NL

\* A faulty variant of the match: the rightmost match instead of the leftmost.
PromptMatch_Last(s, prompt, from) ==
    LET ms == {i \in from..Len(s) : PromptMatchesAt(s, prompt, i)}
    IN IF ms = {} THEN 0 ELSE CHOOSE i \in ms : \A j \in ms : j <= i

\* String.prototype.match: the position of the leftmost match at or after
\* `from`, 0 for null.
PromptMatch(s, prompt, from) ==
    Least({i \in from..Len(s) : PromptMatchesAt(s, prompt, i)})

\* match[1] of a prompt match at position i: the answer line after "- ".
Capture(s, i) ==
    LET a == LineEnd(s, i + 1) + 2
    IN SubSeq(s, a, LineEnd(s, a) - 1)

\* The heading (a text of one or more tokens) occurs at position i, case-insensitively.
HeadingAt(s, heading, i) ==
    /\ i + Len(heading) - 1 <= Len(s)
    /\ \A k \in 1..Len(heading) : CaseFold(s[i + k - 1]) = CaseFold(heading[k])

FirstHeading(s, heading, from) ==
    Least({i \in from..Len(s) : HeadingAt(s, heading, i)})

\* /<heading>[\s\S]*?<prompt>[^\n]*\n- ([^\n]+)/i: the first prompt match after
\* the leftmost heading (a later heading is followed by no match the first is not).
SectionPromptMatch(s, heading, prompt) ==
    LET h == FirstHeading(s, heading, 1)
    IN IF h = 0 THEN 0 ELSE PromptMatch(s, prompt, h + Len(heading))

\* /<heading>[\s\S]*?<closing>/i: match[0], the text from the leftmost heading
\* through the first closing after it; Undefined for null.
SpanMatch(s, heading, closing) ==
    LET h == FirstHeading(s, heading, 1)
        c == IF h = 0 THEN 0 ELSE FirstHeading(s, closing, h + Len(heading))
    IN IF c = 0 THEN Undefined ELSE SubSeq(s, h, c + Len(closing) - 1)

\* s.replace(/<heading>/i, ''): the first occurrence removed
ReplaceFirst(s, heading) ==
    LET h == FirstHeading(s, heading, 1)
    IN IF h = 0 THEN s ELSE SubSeq(s, 1, h - 1) \o From(s, h + Len(heading))

\* s.replace(/<heading>[\s\S]*?<closing>/i, ''): the first span removed
ReplaceFirstSpan(s, heading, closing) ==
    LET h == FirstHeading(s, heading, 1)
        c == IF h = 0 THEN 0 ELSE FirstHeading(s, closing, h + Len(heading))
    IN IF c = 0 THEN s ELSE SubSeq(s, 1, h - 1) \o From(s, c + Len(closing))

(***************************************************************************)
(* The headings, prompts and markers the extractor looks for.              *)
(***************************************************************************)
H1 == <<"## 1. Framework & Language Detection">>
H2 == <<"## 2. File Structure & Paths">>
H3dot == <<"## 3.">>
H3 == <<"## 3.", " Authentication System">>
H4 == <<"## 4. Customer Model">>
H5dot == <<"## 5.">>
HCustomerId == <<"Customer ID Source">>

QFramework == "What framework does the application use?"
QLanguage == "What language is the server written in?"
QAuth == "What authentication library/system is used?"
QCustomerId == "For B2C: What field identifies a user?"
QApiRoute == "Where should API routes be mounted?"
QLib == "Where are utility functions and shared code located?"
QComponents == "Where are UI components located?"
QPricing == "Where is the pricing page/component?"
QNavbar == "Where is the navbar/account menu component?"
QDashboard == "Where is the main dashboard/home page component?"
QEnvFile == "What is the name of the environment file?"
QEnvVar == "How are environment variables accessed?"
QPackage == "What is the name and location of the dependency file?"

B2BMarker == "**B2B**: Businesses"
B2CMarker == "**B2C**: Individual users"

(***************************************************************************)
(* extractCodebaseInfo                                                     *)
(***************************************************************************)
Roles ==
    {"apiRoutePath", "libPath", "componentsPath", "serverFile", "routeHandler",
     "layoutFile", "billingPage", "packageFile", "envFile", "envVarAccess",
     "mockBillingPath", "pricingComponentPath", "navbarComponentPath",
     "dashboardComponentPath"}

BuiltInPaths ==
    [apiRoutePath |-> <<"src/app/api">>,
     libPath |-> <<"src/lib">>,
     componentsPath |-> <<"src/components">>,
     serverFile |-> <<"src/lib/flowglad.ts">>,
     routeHandler |-> <<"src/app/api/flowglad/[...path]/route.ts">>,
     layoutFile |-> <<"src/app/layout.tsx">>,
     billingPage |-> <<"src/app/billing/page.tsx">>,
     packageFile |-> <<"package.json">>,
     envFile |-> <<".env.local">>,
     envVarAccess |-> <<"process.env.VAR_NAME">>,
     mockBillingPath |-> <<"src/lib/billing.ts">>,
     pricingComponentPath |-> <<"src/components/pricing.tsx">>,
     navbarComponentPath |-> <<"src/components/navbar.tsx">>,
     dashboardComponentPath |-> <<"src/app/dashboard/page.tsx">>]

\* { ...a, ...b }: object spread, the later record's keys win
Spread(a, b) ==
    [k \in DOMAIN a \cup DOMAIN b |-> IF k \in DOMAIN b THEN b[k] ELSE a[k]]

\* A faulty variant of the defaults: the spread comes first, the built-in
\* paths overwrite the caller's.
Defaults_BuiltInsWin(defaultPaths) ==
    [framework |-> <<"Next.js">>,
     language |-> <<"TypeScript">>,
     authLibrary |-> <<"unknown">>,
     customerModel |-> <<"B2C">>,
     customerIdSource |-> <<"user.id">>,
     projectStructure |-> Undefined,
     stackDetails |-> Undefined,
     additionalDetails |-> Undefined,
     filePaths |-> Spread(defaultPaths, BuiltInPaths)]

\* const defaults = { ... filePaths: { <built-ins>, ...defaultPaths } }
Defaults(defaultPaths) ==
    [framework |-> <<"Next.js">>,
     language |-> <<"TypeScript">>,
     authLibrary |-> <<"unknown">>,
     customerModel |-> <<"B2C">>,
     customerIdSource |-> <<"user.id">>,
     projectStructure |-> Undefined,
     stackDetails |-> Undefined,
     additionalDetails |-> Undefined,
     filePaths |-> Spread(BuiltInPaths, defaultPaths)]

ExtractFramework(info, doc) ==
    LET frameworkMatch == SectionPromptMatch(doc, H1, QFramework)
        frameworkText == Capture(doc, frameworkMatch)
    IN IF frameworkMatch = 0 THEN info
       ELSE IF IncludesLower(frameworkText, "next.js")
               \/ IncludesLower(frameworkText, "nextjs")
       THEN [info EXCEPT !.projectStructure = <<"nextjs">>,
                         !.framework = <<"Next.js">>]
       ELSE IF IncludesLower(frameworkText, "react")
       THEN [info EXCEPT !.projectStructure = <<"react">>,
                         !.framework = <<"React">>]
       ELSE info

ExtractLanguage(info, doc) ==
    LET languageMatch == PromptMatch(doc, QLanguage, 1)
    IN IF languageMatch = 0 THEN info
       ELSE [info EXCEPT !.language = Trim(Capture(doc, languageMatch))]

\* A faulty variant of the auth library: an answer without a keyword leaves
\* the default in place.
ExtractAuthLibrary_FixedFallback(info, doc) ==
    LET authMatch == SectionPromptMatch(doc, H3, QAuth)
        authText == Capture(doc, authMatch)
    IN IF authMatch = 0 THEN info
       ELSE IF IncludesLower(authText, "clerk") THEN [info EXCEPT !.authLibrary = <<"Clerk">>]
       ELSE IF IncludesLower(authText, "supabase") THEN [info EXCEPT !.authLibrary = <<"Supabase">>]
       ELSE IF IncludesLower(authText, "nextauth") \/ IncludesLower(authText, "next-auth")
       THEN [info EXCEPT !.authLibrary = <<"NextAuth">>]
       ELSE info

ExtractAuthLibrary(info, doc) ==
    LET authMatch == SectionPromptMatch(doc, H3, QAuth)
        authText == Capture(doc, authMatch)
    IN IF authMatch = 0 THEN info
       ELSE IF IncludesLower(authText, "clerk")
       THEN [info EXCEPT !.authLibrary = <<"Clerk">>]
       ELSE IF IncludesLower(authText, "supabase")
       THEN [info EXCEPT !.authLibrary = <<"Supabase">>]
       ELSE IF IncludesLower(authText, "nextauth")
               \/ IncludesLower(authText, "next-auth")
       THEN [info EXCEPT !.authLibrary = <<"NextAuth">>]
       ELSE [info EXCEPT !.authLibrary = Trim(authText)]

\* A faulty variant of the customer model: the position of the individual
\* marker is not looked at.
ExtractCustomerModel_AnyBusinessMarker(info, doc) ==
    IF IndexOf(doc, B2BMarker) # 0
    THEN [info EXCEPT !.customerModel = <<"B2B">>]
    ELSE info

ExtractCustomerModel(info, doc) ==
    LET b2bIndex == IndexOf(doc, B2BMarker)
        b2cIndex == IndexOf(doc, B2CMarker)
    IN IF b2bIndex # 0 /\ (b2cIndex = 0 \/ b2bIndex < b2cIndex)
       THEN [info EXCEPT !.customerModel = <<"B2B">>]
       ELSE info

ExtractCustomerIdSource(info, doc) ==
    LET customerIdMatch == SectionPromptMatch(doc, HCustomerId, QCustomerId)
    IN IF customerIdMatch = 0 THEN info
       ELSE [info EXCEPT !.customerIdSource = Trim(Capture(doc, customerIdMatch))]

ExtractStackDetails(info, doc) ==
    LET stackMatch == SpanMatch(doc, H2, H3dot)
    IN IF stackMatch = Undefined THEN info
       ELSE [info EXCEPT !.stackDetails =
                Trim(ReplaceFirst(ReplaceFirst(stackMatch, H2), H3dot))]

ExtractAdditionalDetails(info, doc) ==
    LET additionalMatch == SpanMatch(doc, H4, H5dot)
    IN IF additionalMatch = Undefined THEN info
       ELSE [info EXCEPT !.additionalDetails =
                Trim(ReplaceFirstSpan(additionalMatch, H4, H5dot))]

\* A faulty variant of the path extraction: the role is set from a capture
\* group the pattern does not have (m[2], which is undefined).
ExtractPath_MissingGroup(info, doc, prompt, role) ==
    LET m == PromptMatch(doc, prompt, 1)
    IN IF m = 0 THEN info
       ELSE [info EXCEPT !.filePaths[role] = Undefined]

\* const m = doc.match(/<prompt>.../i); if (m) info.filePaths.<role> = m[1].trim()
ExtractPath(info, doc, prompt, role) ==
    LET m == PromptMatch(doc, prompt, 1)
    IN IF m = 0 THEN info
       ELSE [info EXCEPT !.filePaths[role] = Trim(Capture(doc, m))]

\* A faulty variant of the recomputation: the extension does not follow the
\* language.
ExtractLibPath_AlwaysTs(info, doc) ==
    LET libMatch == PromptMatch(doc, QLib, 1)
        libPath == Trim(Capture(doc, libMatch))
    IN IF libMatch = 0 THEN info
       ELSE [info EXCEPT
                !.filePaths.libPath = libPath,
                !.filePaths.serverFile = libPath \o <<"/flowglad.">> \o <<"ts">>]

ExtractLibPath(info, doc) ==
    LET libMatch == PromptMatch(doc, QLib, 1)
        libPath == Trim(Capture(doc, libMatch))
    IN IF libMatch = 0 THEN info
       ELSE [info EXCEPT
                !.filePaths.libPath = libPath,
                !.filePaths.serverFile =
                    libPath \o <<"/flowglad.">>
                    \o (IF Includes(info.language, "TypeScript")
                        THEN <<"ts">> ELSE <<"js">>)]

extractCodebaseInfo(doc, defaultPaths) ==
    LET defaults == Defaults(defaultPaths)
    IN IF ~Truthy(doc) THEN defaults
       ELSE
        LET i1 == ExtractFramework(defaults, doc)
            i2 == ExtractLanguage(i1, doc)
            i3 == ExtractAuthLibrary(i2, doc)
            i4 == ExtractCustomerModel(i3, doc)
            i5 == ExtractCustomerIdSource(i4, doc)
            i6 == ExtractStackDetails(i5, doc)
            i7 == ExtractAdditionalDetails(i6, doc)
            i8 == ExtractPath(i7, doc, QApiRoute, "apiRoutePath")
            i9 == ExtractLibPath(i8, doc)
            i10 == ExtractPath(i9, doc, QComponents, "componentsPath")
            i11 == ExtractPath(i10, doc, QPricing, "pricingComponentPath")
            i12 == ExtractPath(i11, doc, QNavbar, "navbarComponentPath")
            i13 == ExtractPath(i12, doc, QDashboard, "dashboardComponentPath")
            i14 == ExtractPath(i13, doc, QEnvFile, "envFile")
            i15 == ExtractPath(i14, doc, QEnvVar, "envVarAccess")
        IN ExtractPath(i15, doc, QPackage, "packageFile")

(***************************************************************************)
(* SpecExtract: extractCodebaseInfo applied to bounded inputs.  A document *)
(* is absent (Undefined), empty, or up to MaxBlocks blocks of an analysis  *)
(* document: headings, answered and unanswered prompts, markers, text.     *)
(***************************************************************************)
Line(tokens) == tokens \o <<NL>>

\* A question prompt with its answer on the next line, as the analysis
\* prompt asks for it:  <question>\n- <answer>\n
Answered(prompt, answer) == <<prompt, NL, DASH>> \o answer \o <<NL>>

Blocks ==
    { Line(H1), Line(H2), Line(H3), Line(H4 \o <<" (B2C vs B2B)">>),
      Line(H5dot \o <<" Frontend Framework">>), Line(HCustomerId),
      Answered(QFramework, <<"Next.js">>), Answered(QFramework, <<"React">>),
      Answered(QFramework, <<"Vue">>),
      Answered(QLanguage, <<"TypeScript">>), Answered(QLanguage, <<"JavaScript">>),
      Answered(QAuth, <<"Clerk">>), Answered(QAuth, <<SP, "Auth0", SP>>),
      Answered(QAuth, <<"Supabase", SP, "and", SP, "CLERK">>),
      Answered(QCustomerId, <<"session.user.id">>),
      Answered(QApiRoute, <<"app/api">>),
      Answered(QLib, <<"lib">>),
      Answered(QComponents, <<"components">>),
      Answered(QPricing, <<"pricing.tsx">>),
      Answered(QNavbar, <<"navbar.tsx">>),
      Answered(QDashboard, <<"dashboard.tsx">>),
      Answered(QEnvFile, <<".env">>), Answered(QEnvFile, <<SP>>),
      Answered(QEnvVar, <<"import.meta.env">>),
      Answered(QPackage, <<"pkg/package.json">>),
      Line(<<QLib>>),
      Line(<<B2BMarker>>), Line(<<B2CMarker>>),
      Line(<<"text">>) }

RECURSIVE DocsOf(_)
\* The texts of exactly n blocks.
DocsOf(n) ==
    IF n = 0 THEN {<<>>}
    ELSE {d \o b : d \in DocsOf(n - 1), b \in Blocks}

Docs == UNION {DocsOf(n) : n \in 0..MaxBlocks}

\* The defaultPaths arguments tried: no override, two roles overridden.
Overrides ==
    { <<>>,
      [libPath |-> <<"lib">>, envFile |-> <<".env">>] }

XStart ==
    /\ xpc = "build"
    /\ xdoc \in {Undefined} \cup Docs
    /\ xdefaultPaths \in Overrides
    /\ xinfo = NullObject
    /\ xprev = NullObject
    /\ xcalls = 0

\* A call extractCodebaseInfo(xdoc, xdefaultPaths); the caller keeps the
\* record of the call before.
CallExtract ==
    /\ xcalls < MaxCalls
    /\ xprev' = xinfo
    /\ xinfo' = extractCodebaseInfo(xdoc, xdefaultPaths)
    /\ xcalls' = xcalls + 1
    /\ xpc' = "called"
    /\ UNCHANGED <<xdoc, xdefaultPaths>>

XNext == CallExtract /\ UNCHANGED <<ovars, avars, svars, pvars, kvars>>


(***************************************************************************)
(* Credentials: sequences of characters.                                   *)
(***************************************************************************)
BearerPrefix == <<"B", "e", "a", "r", "e", "r", " ">>

\* s.startsWith(prefix)
StartsWith(s, prefix) ==
    Len(s) >= Len(prefix) /\ SubSeq(s, 1, Len(prefix)) = prefix

\* s.substring(n)
Substring(s, n) == SubSeq(s, n + 1, Len(s))

\* a || b on optional strings
OrElse(a, b) == IF Truthy(a) THEN a ELSE b

\* !s || s.trim() === ''
IsBlank(s) == ~Truthy(s) \/ Trim(s) = <<>>

\* getSetupInstructions: bearerToken after the look at the two sources
\* (callbackConstructor's apiKey, then MCP_API_KEY with its "Bearer " prefix cut)
ResolveSetupToken(key, env) ==
    LET first == OrElse(key, <<>>)
        fromEnv == OrElse(env, <<>>)
    IN IF IsBlank(first)
       THEN IF StartsWith(fromEnv, BearerPrefix)
            THEN Trim(Substring(fromEnv, Len(BearerPrefix)))
            ELSE fromEnv
       ELSE first

\* analyzeCodebase: bearerToken after the look at the three sources
\* (extra.authInfo.token, then apiKey, then MCP_API_KEY)
ResolveAnalyzeToken(token, key, env) ==
    LET first == OrElse(token, OrElse(key, <<>>))
    IN IF IsBlank(first) THEN OrElse(env, <<>>) ELSE first

(***************************************************************************)
(* Files and the texts the two tools return.                               *)
(***************************************************************************)
\* The files an invocation may be given, by handle: two well-formed files, one
\* with an empty path, one whose content is undefined.
File(handle) ==
    CASE handle = "A" -> [path |-> <<"package.json">>, content |-> <<"{}">>]
      [] handle = "B" -> [path |-> <<"src/app/layout.tsx">>, content |-> <<>>]
      [] handle = "NoPath" -> [path |-> <<>>, content |-> <<"x">>]
      [] handle = "NoContent" -> [path |-> <<"a.ts">>, content |-> Undefined]

\* An argument that is not an array: a string, as a caller that skips the
\* schema may pass it.
NotAnArray == <<"\\string">>

\* Array.isArray(v)
IsArray(v) == v # Undefined /\ v # NotAnArray

\* analyzeCodebase's filter: f.path && f.content !== undefined
ValidFile(f) == Truthy(f.path) /\ f.content # Undefined

\* fileContents.filter(valid), over a sequence of handles
RECURSIVE FilterValid(_)
FilterValid(files) ==
    IF files = <<>> THEN <<>>
    ELSE (IF ValidFile(File(Head(files))) THEN <<Head(files)>> ELSE <<>>)
         \o FilterValid(Tail(files))

\* "## File: <path>", then the content between two code fences
FileBlock(f) == <<"## File: ">> \o f.path \o <<"[fence]">> \o f.content \o <<"[fence]">>

\* validFiles.map(FileBlock).join(<rule>)
RECURSIVE FilesContext(_)
FilesContext(files) ==
    IF files = <<>> THEN <<>>
    ELSE IF Len(files) = 1 THEN FileBlock(File(files[1]))
    ELSE FileBlock(File(files[1])) \o <<"---">> \o FilesContext(Tail(files))

\* the content of analyze-codebase.md
AnalysisPrompt == <<"We are trying to add payments and billing to our product using Flowglad.">>

FullAnalysisRequest(prompt, root, validFiles) ==
    prompt \o <<"# Codebase Files to Analyze">>
    \o (IF Truthy(root) THEN <<"**Project Root:** ">> \o root ELSE <<>>)
    \o <<"**Files Analyzed:** ", ToString(Len(validFiles))>>
    \o FilesContext(validFiles)
    \o <<"# Your Task">>

NotAnArrayError == <<"error: fileContents is required and must be an array">>
NoValidFilesError == <<"error: No valid files provided for analysis">>
AnalyzeCaughtError(message) == <<"Error analyzing codebase: ">> \o message
ReadError == <<"ENOENT: no such file or directory">>
NoApiKeyError == <<"No API key provided.">>

RedirectText(components, analysis) ==
    <<"# Codebase Analysis Required",
      "call getSetupInstructions again with:",
      "- codebaseAnalysis: The complete markdown document from your analysis",
      "- fileContents: (same as before, optional)",
      "- pricingComponents: ">> \o components
    \o <<"## Analysis Request from analyzeCodebase:">> \o analysis

(***************************************************************************)
(* JavaScript objects whose key order matters: sequences of <<key, value>>.*)
(***************************************************************************)
Null == <<"\\null">>

\* obj[key], Undefined when the key is missing
Get(obj, key) ==
    LET at == {i \in 1..Len(obj) : obj[i][1] = key}
    IN IF at = {} THEN Undefined ELSE obj[Least(at)][2]

\* obj[key] = value: in place when the key exists, appended otherwise
Put(obj, key, value) ==
    LET at == {i \in 1..Len(obj) : obj[i][1] = key}
    IN IF at = {} THEN Append(obj, <<key, value>>)
       ELSE [obj EXCEPT ![Least(at)] = <<key, value>>]

\* value != null && value !== undefined (a value that `!x` does not reject as missing)
Present(v) == v # Undefined /\ v # Null

\* parts.join(sep)
RECURSIVE Join(_, _)
Join(parts, sep) ==
    IF parts = <<>> THEN <<>>
    ELSE IF Len(parts) = 1 THEN parts[1]
    ELSE parts[1] \o sep \o Join(Tail(parts), sep)

\* text.replace(/<token>/g, value): every occurrence of the token
RECURSIVE ReplaceAll(_, _, _)
ReplaceAll(text, token, value) ==
    LET at == {i \in 1..Len(text) : text[i] = token}
    IN IF at = {} THEN text
       ELSE LET first == Least(at)
            IN SubSeq(text, 1, first - 1) \o value
               \o ReplaceAll(SubSeq(text, first + 1, Len(text)), token, value)

(***************************************************************************)
(* analyzePricingModel and constructPricingModelInstructions               *)
(***************************************************************************)
FeatureTypeToggle == "toggle"

\* A faulty variant of the analysis: a trial length is tested for truthiness,
\* so that a length of 0 counts as no trial.
analyzePricingModel_TruthyTrial(data) ==
    [hasTrials |->
        \E p \in 1..Len(data.products) :
            \E q \in 1..Len(data.products[p].prices) :
                /\ Present(data.products[p].prices[q].trialPeriodDays)
                /\ data.products[p].prices[q].trialPeriodDays # <<"0">>,
     hasUsageMeters |-> Len(data.usageMeters) > 0,
     hasToggleFeatures |->
        \E f \in 1..Len(data.features) : data.features[f].type = FeatureTypeToggle]

analyzePricingModel(data) ==
    [hasTrials |->
        \E p \in 1..Len(data.products) :
            \E q \in 1..Len(data.products[p].prices) :
                Present(data.products[p].prices[q].trialPeriodDays),
     hasUsageMeters |-> Len(data.usageMeters) > 0,
     hasToggleFeatures |->
        \E f \in 1..Len(data.features) : data.features[f].type = FeatureTypeToggle]

TrialsBlock == <<"## Free Trials">>
UsageBlock == <<"## Usage-Based Pricing">>
ToggleBlock == <<"## Feature Access (Toggle Features)">>
BlankLine == <<NL, NL>>

\* A faulty variant of the composition: the usage block is pushed before the
\* trial block.
constructPricingModelInstructions_UsageFirst(data, analysis) ==
    Join((IF analysis.hasUsageMeters THEN <<UsageBlock>> ELSE <<>>)
         \o (IF analysis.hasTrials THEN <<TrialsBlock>> ELSE <<>>)
         \o (IF analysis.hasToggleFeatures THEN <<ToggleBlock>> ELSE <<>>),
         BlankLine)

constructPricingModelInstructions(data, analysis) ==
    LET sections ==
            (IF analysis.hasTrials THEN <<TrialsBlock>> ELSE <<>>)
            \o (IF analysis.hasUsageMeters THEN <<UsageBlock>> ELSE <<>>)
            \o (IF analysis.hasToggleFeatures THEN <<ToggleBlock>> ELSE <<>>)
    IN Join(sections, BlankLine)

\* yaml.stringify(data) when it succeeds: a rendering of the three collections
RECURSIVE SlugsOf(_)
SlugsOf(items) ==
    IF items = <<>> THEN <<>> ELSE Head(items).slug \o SlugsOf(Tail(items))

YamlOf(data) ==
    <<"products:", ToString(Len(data.products)), "features:">>
    \o SlugsOf(data.features) \o <<"usageMeters:">> \o SlugsOf(data.usageMeters)

(***************************************************************************)
(* codeSnippetUtils: the classifiers and resolveSnippets                   *)
(***************************************************************************)
getFrameworkKey(framework) ==
    IF IncludesLower(framework, "nextjs") \/ IncludesLower(framework, "next.js")
    THEN "nextjs"
    ELSE IF IncludesLower(framework, "react") THEN "react"
    ELSE "nextjs"

\* A faulty variant of the auth classifier: clerk is tested before supabase.
getAuthKey_ClerkFirst(authProvider) ==
    IF IncludesLower(authProvider, "clerk") THEN "clerk"
    ELSE IF IncludesLower(authProvider, "supabase") THEN "supabase"
    ELSE IF IncludesLower(authProvider, "nextauth")
            \/ IncludesLower(authProvider, "next-auth")
    THEN "nextauth"
    ELSE "custom"

getAuthKey(authProvider) ==
    IF IncludesLower(authProvider, "supabase") THEN "supabase"
    ELSE IF IncludesLower(authProvider, "clerk") THEN "clerk"
    ELSE IF IncludesLower(authProvider, "nextauth")
            \/ IncludesLower(authProvider, "next-auth")
    THEN "nextauth"
    ELSE "custom"

getLocationKey(stackDetails) ==
    IF IncludesLower(stackDetails, "src/app") \/ IncludesLower(stackDetails, "src\\app")
    THEN "src/app"
    ELSE IF IncludesLower(stackDetails, "src/pages")
            \/ IncludesLower(stackDetails, "src\\pages")
    THEN "src/pages"
    ELSE IF IncludesLower(stackDetails, "app router")
            \/ IncludesLower(stackDetails, "app/")
    THEN "app"
    ELSE IF IncludesLower(stackDetails, "pages router")
            \/ IncludesLower(stackDetails, "pages/")
    THEN "pages"
    ELSE "app"

\* A TypeError raised by reading a property of undefined.
TypeError == <<"\\TypeError">>

TemplateSuffix == "Template"

\* key.endsWith('Template'), a key being a sequence of name parts
EndsWithTemplate(key) == key # <<>> /\ key[Len(key)] = TemplateSuffix

\* key.replace('Template', ''): the first occurrence removed
StripTemplate(key) ==
    LET at == {i \in 1..Len(key) : key[i] = TemplateSuffix}
    IN SubSeq(key, 1, Least(at) - 1) \o From(key, Least(at) + 1)

\* a replacement value as String.replace inserts it: undefined reads "undefined"
AsText(v) == IF v = Undefined THEN <<"undefined">> ELSE v

\* A faulty variant of the resolution of one template: only the server
\* package is filled in.
ResolveValue_ServerOnly(value, framework) ==
    ReplaceAll(value, "{SERVER_PKG}", AsText(Get(framework, "serverPkg")))

ResolveValue(value, framework) ==
    ReplaceAll(
        ReplaceAll(
            ReplaceAll(value, "{SERVER_PKG}", AsText(Get(framework, "serverPkg"))),
            "{PROVIDER_PKG}", AsText(Get(framework, "providerPkg"))),
        "{BILLING_HOOK_PKG}", AsText(Get(framework, "billingHookPkg")))

\* the inner loop of resolveSnippets over one auth provider's entries
RECURSIVE ResolveEntries(_, _, _)
ResolveEntries(entries, framework, acc) ==
    IF entries = <<>> THEN acc
    ELSE LET key == Head(entries)[1]
             value == Head(entries)[2]
         IN ResolveEntries(
                Tail(entries), framework,
                IF EndsWithTemplate(key)
                THEN Put(acc, StripTemplate(key), ResolveValue(value, framework))
                ELSE Put(acc, key, value))

\* the outer loop of resolveSnippets over the auth providers of base
RECURSIVE ResolveBase(_, _, _)
ResolveBase(base, framework, acc) ==
    IF base = <<>> THEN acc
    ELSE ResolveBase(
            Tail(base), framework,
            Put(acc, Head(base)[1], ResolveEntries(Head(base)[2], framework, <<>>)))

\* resolveSnippets(snippets, frameworkKey): the resolved mapping, Null, or a TypeError
resolveSnippets(library, frameworkKey) ==
    LET base == Get(library, "base")
        frameworks == Get(library, "frameworks")
    IN IF frameworks = Undefined THEN TypeError
       ELSE IF ~Present(base) \/ ~Present(Get(frameworks, frameworkKey)) THEN Null
       ELSE ResolveBase(base, Get(frameworks, frameworkKey), <<>>)

(***************************************************************************)
(* templateReplacer: buildTemplateReplacements, applyTemplateReplacements  *)
(***************************************************************************)
\* items.map(m => m.slug), each slug a text
RECURSIVE Slugs(_)
Slugs(items) ==
    IF items = <<>> THEN <<>> ELSE <<Head(items).slug>> \o Slugs(Tail(items))

\* features.filter(f => f.type === FeatureType.Toggle)
RECURSIVE Toggles(_)
Toggles(features) ==
    IF features = <<>> THEN <<>>
    ELSE (IF Head(features).type = FeatureTypeToggle THEN <<Head(features)>> ELSE <<>>)
         \o Toggles(Tail(features))

\* products.map(p => p.product?.name || p.product?.slug || 'Product')
RECURSIVE ProductNames(_)
ProductNames(products) ==
    IF products = <<>> THEN <<>>
    ELSE <<OrElse(Head(products).product.name,
                  OrElse(Head(products).product.slug, <<"Product">>))>>
         \o ProductNames(Tail(products))

\* usageMeters.map(m => `- ${m.slug}: ${m.name}`)
RECURSIVE MeterDefinitions(_)
MeterDefinitions(meters) ==
    IF meters = <<>> THEN <<>>
    ELSE <<(<<DASH>> \o Head(meters).slug \o <<": ">> \o Head(meters).name)>>
         \o MeterDefinitions(Tail(meters))

\* path.replace(/\.(ts|tsx|js|jsx)$/, ''): a trailing source-file extension cut
StripExtension(path) ==
    LET n == Len(path)
    IN IF n >= 2 /\ path[n] \in {"ts", "tsx", "js", "jsx"} /\ path[n - 1] = "/flowglad."
       THEN SubSeq(path, 1, n - 2) \o <<"/flowglad">>
       ELSE IF n >= 1 /\ path[n] = "src/lib/billing.ts"
       THEN SubSeq(path, 1, n - 1) \o <<"src/lib/billing">>
       ELSE IF n >= 1 /\ path[n] = "src/lib/flowglad.ts"
       THEN SubSeq(path, 1, n - 1) \o <<"src/lib/flowglad">>
       ELSE path

\* source.replace(/^(user\.|session\.user\.)/, '').split('.')[0] || 'id'
CustomerIdField(source) ==
    IF source = <<>> THEN <<"id">>
    ELSE IF source[1] \in {"user.id", "session.user.id"} THEN <<"id">>
    ELSE <<source[1]>>

RouterQuestion == "If Next.js: Is it using App Router"
PagesRouter == "Pages Router"
AppRouterOpen == "App Router ("
PagesRouterOpen == "Pages Router ("

\* the routing info of buildTemplateReplacements
RoutingInfo(doc, projectStructure) ==
    IF projectStructure # <<"nextjs">> THEN <<"Standard React routing">>
    ELSE IF doc = Undefined THEN <<"App Router">>
    ELSE IF ~\E i \in 1..Len(doc) :
                CaseFold(doc[i]) \in {CaseFold(RouterQuestion), CaseFold(PagesRouter),
                                     CaseFold(PagesRouterOpen)}
    THEN <<"App Router">>
    ELSE LET at == Least({i \in 1..(Len(doc) - 2) :
                            /\ CaseFold(doc[i]) \in {CaseFold(AppRouterOpen),
                                                     CaseFold(PagesRouterOpen)}
                            /\ doc[i + 1] \notin {NL, ")"}
                            /\ doc[i + 2] = ")"})
         IN IF at # 0 /\ CaseFold(doc[at]) = CaseFold(AppRouterOpen)
            THEN <<doc[at + 1]>>
            ELSE <<"App Router">>

QAuthFile == "Where is the server-side auth configuration?"

AuthFilePath(doc) ==
    IF ~Truthy(doc) \/ PromptMatch(doc, QAuthFile, 1) = 0
    THEN <<"src/lib/auth.ts">>
    ELSE OrElse(Capture(doc, PromptMatch(doc, QAuthFile, 1)), <<"src/lib/auth.ts">>)

\* the object literal `replacements` (lines 535-593), in its key order
BaseReplacements(ctx, frameworkInfo) ==
    LET info == ctx.codebaseInfo
        data == ctx.pricingModelData
        usageMeterSlugs ==
            IF data = NullObject THEN <<"usage_meter_slug">>
            ELSE OrElse(Join(Slugs(data.usageMeters), <<", ">>), <<"usage_meter_slug">>)
        featureToggleSlugs ==
            IF data = NullObject THEN <<"feature_slug">>
            ELSE OrElse(Join(Slugs(Toggles(data.features)), <<", ">>), <<"feature_slug">>)
        productNames ==
            IF data = NullObject THEN <<"Product Name">>
            ELSE OrElse(Join(ProductNames(data.products), <<", ">>), <<"Product Name">>)
        isTypeScript == Includes(info.language, "TypeScript")
    IN << <<"{FRAMEWORK}", info.framework>>,
          <<"{LANGUAGE}", info.language>>,
          <<"{FRAMEWORK_ROUTING_INFO}",
            RoutingInfo(ctx.codebaseAnalysis, ctx.finalProjectStructure)>>,
          <<"{AUTH_LIBRARY}", info.authLibrary>>,
          <<"{AUTH_FILE_PATHS}", AuthFilePath(ctx.codebaseAnalysis)>>,
          <<"{CUSTOMER_ENTITY}",
            IF info.customerModel = <<"B2B">> THEN <<"organization">> ELSE <<"user">> >>,
          <<"{CUSTOMER_ID_SOURCE}", info.customerIdSource>>,
          <<"{FRONTEND_FRAMEWORK}", info.framework>>,
          <<"{FLOWGLAD_CLIENT_PACKAGE}",
            IF Present(frameworkInfo)
            THEN OrElse(Get(frameworkInfo, "providerPkg"), <<"@flowglad/nextjs">>)
            ELSE <<"@flowglad/nextjs">> >>,
          <<"{USAGE_METER_EXAMPLES}", usageMeterSlugs>>,
          <<"{FEATURE_TOGGLE_EXAMPLES}", featureToggleSlugs>>,
          <<"{USAGE_METER_SLUGS}", usageMeterSlugs>>,
          <<"{FEATURE_TOGGLE_SLUGS}", featureToggleSlugs>>,
          <<"{PRODUCT_NAMES}", productNames>>,
          <<"{PACKAGE_FILE}", info.filePaths.packageFile>>,
          <<"{PACKAGE_DEPENDENCIES_CODE}", <<"[json: @flowglad/nextjs, @flowglad/server]">> >>,
          <<"{PACKAGE_SCRIPTS_CODE}", <<>> >>,
          <<"{FLOWGLAD_SERVER_PATH}", info.filePaths.serverFile>>,
          <<"{FLOWGLAD_ROUTE_PATH}", info.filePaths.routeHandler>>,
          <<"{PROVIDER_COMPONENT_PATH}", info.filePaths.libPath \o <<"/providers.tsx">> >>,
          <<"{ROOT_LAYOUT_PATH}", info.filePaths.layoutFile>>,
          <<"{MOCK_BILLING_PATH}", info.filePaths.mockBillingPath>>,
          <<"{MOCK_BILLING_IMPORT_PATH}", StripExtension(info.filePaths.mockBillingPath)>>,
          <<"{BILLING_HELPERS_PATH}", info.filePaths.libPath \o <<"/billing-helpers.ts">> >>,
          <<"{TYPE_SYSTEM}",
            IF isTypeScript THEN <<"TypeScript">> ELSE <<"JavaScript">> >>,
          <<"{USAGE_EVENTS_ROUTE_PATH}",
            info.filePaths.apiRoutePath \o <<"/usage-events/route.ts">> >>,
          <<"{PRICING_COMPONENT_PATH}", info.filePaths.pricingComponentPath>>,
          <<"{NAVBAR_COMPONENT_PATH}", info.filePaths.navbarComponentPath>>,
          <<"{DASHBOARD_COMPONENT_PATH}", info.filePaths.dashboardComponentPath>>,
          <<"{ENV_FILE}", info.filePaths.envFile>>,
          <<"{ENV_VAR_ACCESS}", info.filePaths.envVarAccess>>,
          <<"{LANGUAGE_EXTENSION}",
            IF isTypeScript THEN <<"typescript">> ELSE <<"javascript">> >>,
          <<"{USAGE_EXAMPLES}", usageMeterSlugs>>,
          <<"{USAGE_METER_DEFINITIONS}",
            IF data = NullObject THEN <<"- usage_meter_slug: Usage Meter Name">>
            ELSE OrElse(Join(MeterDefinitions(data.usageMeters), <<NL>>),
                        <<"- usage_meter_slug: Usage Meter Name">>)>> >>

\* the four keys set from the snippet library (lines 602-630)
SnippetReplacements(base, authSnippets, frameworkSnippets) ==
    LET route == ReplaceAll(Get(frameworkSnippets, "routeHandlerTemplate"),
                            "{SERVER_PKG}", AsText(Get(frameworkSnippets, "serverPkg")))
        import == ReplaceAll(Get(authSnippets, <<"layoutImport">>),
                             "{PROVIDER_PKG}", AsText(Get(frameworkSnippets, "providerPkg")))
        r1 == Put(base, "{FLOWGLAD_SERVER_CODE}", Get(authSnippets, <<"serverInit">>))
        r2 == Put(r1, "{FLOWGLAD_ROUTE_CODE}", route)
        r3 == Put(r2, "{FRONTEND_PROVIDER_SECTION}",
                  <<"Add the FlowgladProvider to your root layout:">> \o import
                  \o <<"export default function RootLayout">>
                  \o AsText(Get(authSnippets, <<"layoutProvider">>))
                  \o <<"{children}">>
                  \o OrElse(Get(authSnippets, <<"layoutProviderClose">>),
                            <<"</FlowgladProvider>">>))
    IN Put(r3, "{BILLING_HELPERS_CODE}", <<"// Helper functions for billing UI">>)

\* the four keys set without a snippet library entry (lines 632-668)
FallbackReplacements(base, info) ==
    LET r1 == Put(base, "{FLOWGLAD_SERVER_CODE}",
                  <<"import { getSessionUser } from '">> \o info.filePaths.libPath
                  \o <<"/auth'", "externalId: user.">>
                  \o CustomerIdField(info.customerIdSource))
        r2 == Put(r1, "{FLOWGLAD_ROUTE_CODE}",
                  <<"import { flowgladServer } from '">>
                  \o StripExtension(info.filePaths.serverFile)
                  \o <<"'", "flowgladServer.handleRequest(request)">>)
        r3 == Put(r2, "{FRONTEND_PROVIDER_SECTION}",
                  <<"Add FlowgladProvider to your root layout.">>)
    IN Put(r3, "{BILLING_HELPERS_CODE}", <<"// Billing helper functions">>)

\* buildTemplateReplacements(context): the token map, or a TypeError when the
\* library lacks a property the code dereferences
buildTemplateReplacements(ctx) ==
    LET frameworkKey == getFrameworkKey(ctx.finalProjectStructure)
        frameworks == Get(ctx.snippets, "frameworks")
        frameworkInfo == Get(frameworks, frameworkKey)
        authProvider ==
            IF Truthy(ctx.codebaseAnalysis) THEN getAuthKey(ctx.codebaseAnalysis)
            ELSE getAuthKey(ctx.finalStackDetails)
        locationKey == getLocationKey(ctx.finalStackDetails)
        resolvedSnippets == resolveSnippets(ctx.snippets, frameworkKey)
        authSnippets ==
            IF Present(resolvedSnippets) THEN Get(resolvedSnippets, authProvider)
            ELSE Undefined
        locations == Get(ctx.snippets, "filePaths")
        filePaths ==
            IF Present(locations) THEN Get(locations, locationKey) ELSE Undefined
    IN IF frameworks = Undefined THEN TypeError
       ELSE IF Present(authSnippets) /\ Present(filePaths) /\ Present(frameworkInfo)
       THEN IF Get(frameworkInfo, "routeHandlerTemplate") = Undefined
               \/ Get(authSnippets, <<"layoutImport">>) = Undefined
            THEN TypeError
            ELSE SnippetReplacements(BaseReplacements(ctx, frameworkInfo),
                                     authSnippets, frameworkInfo)
       ELSE FallbackReplacements(BaseReplacements(ctx, frameworkInfo), ctx.codebaseInfo)

\* applyTemplateReplacements: every entry applied in key order, each to the
\* result of the one before
RECURSIVE applyTemplateReplacements(_, _)
applyTemplateReplacements(template, replacements) ==
    IF replacements = <<>> THEN template
    ELSE LET replaced == ReplaceAll(template, Head(replacements)[1],
                                    AsText(Head(replacements)[2]))
         IN IF replaced = <<>> THEN <<>>
            ELSE applyTemplateReplacements(replaced, Tail(replacements))

(***************************************************************************)
(* The static resources and the external data of an invocation.            *)
(***************************************************************************)
\* generation-based-subscription-flowglad-integration.md: its section
\* headings and, per section, the placeholders it uses
GenerationTemplate ==
    <<"## Prompt: Integrate Flowglad Billing Into a ", "{FRAMEWORK}",
      " Subscription App", NL, "{LANGUAGE}", "{FRAMEWORK}",
      "{FRAMEWORK_ROUTING_INFO}", "{AUTH_LIBRARY}",
      "{AUTH_FILE_PATHS}", "{MOCK_BILLING_PATH}",
      "### 1. High-Level Objectives", NL, "{FRAMEWORK}", "{AUTH_LIBRARY}",
      "{CUSTOMER_ID_SOURCE}", "{FRONTEND_FRAMEWORK}",
      "{FLOWGLAD_CLIENT_PACKAGE}", "{USAGE_METER_EXAMPLES}",
      "{FEATURE_TOGGLE_EXAMPLES}", "### 2. Package & Script Changes (",
      "{PACKAGE_FILE}", ")", NL, "{PACKAGE_FILE}",
      "{PACKAGE_DEPENDENCIES_CODE}", "{PACKAGE_SCRIPTS_CODE}",
      "### 3. Pricing Model Configuration (pricing.yaml)", NL,
      "{PACKAGE_FILE}", "{USAGE_METER_SLUGS}", "{FEATURE_TOGGLE_SLUGS}",
      "{PRODUCT_NAMES}", "{USAGE_METER_DEFINITIONS}",
      "### 4. Server-Side Flowglad Wiring (", "{FLOWGLAD_SERVER_PATH}", ")",
      NL, "{FLOWGLAD_SERVER_PATH}", "{FLOWGLAD_SERVER_CODE}",
      "{AUTH_LIBRARY}", "{CUSTOMER_ENTITY}", "### 5. Flowglad API Route (",
      "{FLOWGLAD_ROUTE_PATH}", ")", NL, "{FRAMEWORK}",
      "{FLOWGLAD_ROUTE_CODE}", "### 6. ",
      "{FRONTEND_FRAMEWORK}", " Provider Setup (",
      "{PROVIDER_COMPONENT_PATH}", " + ", "{ROOT_LAYOUT_PATH}", ")", NL,
      "{FRONTEND_PROVIDER_SECTION}",
      "### 7. Replace Local Billing Hook (If Present) With Flowglad useBilling",
      NL, "{MOCK_BILLING_PATH}", "{MOCK_BILLING_IMPORT_PATH}",
      "{LANGUAGE_EXTENSION}", "{FLOWGLAD_CLIENT_PACKAGE}",
      "### 8. Billing Helper ", "{TYPE_SYSTEM}",
      " (", "{BILLING_HELPERS_PATH}", ")", NL, "{BILLING_HELPERS_CODE}",
      "### 9. Usage Event API (", "{USAGE_EVENTS_ROUTE_PATH}", ")", NL,
      "{USAGE_EXAMPLES}", "{USAGE_EVENTS_ROUTE_PATH}", "{USAGE_EVENTS_CODE}",
      "### 10. UI Components That Consume Billing", NL,
      "{PRICING_COMPONENT_PATH}", "{FLOWGLAD_CLIENT_PACKAGE}",
      "{NAVBAR_COMPONENT_PATH}", "{DASHBOARD_COMPONENT_PATH}",
      "### 11. Environment Variables", NL, "{ENV_FILE}", "{ENV_VAR_ACCESS}",
      "### 12. Final Checklist (What You Must Achieve)", NL,
      "{AUTH_LIBRARY}", "{USAGE_METER_EXAMPLES}">>

\* Contents of codeSnippets.json that JSON.parse may return: a well-formed
\* library, one without a base section, one without a frameworks section.
NextjsFramework ==
    << <<"serverPkg", <<"@flowglad/nextjs/server">> >>,
       <<"providerPkg", <<"@flowglad/nextjs">> >>,
       <<"billingHookPkg", <<"@flowglad/nextjs">> >>,
       <<"routeHandlerTemplate", <<"import { nextRouteHandler } from '", "{SERVER_PKG}", "'">> >> >>

ReactFramework ==
    << <<"serverPkg", <<"@flowglad/server">> >>,
       <<"providerPkg", <<"@flowglad/react">> >>,
       <<"billingHookPkg", <<"@flowglad/react">> >>,
       <<"routeHandlerTemplate", <<"import { requestHandler } from '", "{SERVER_PKG}", "'">> >> >>

ClerkSnippets ==
    << << <<"serverInit", "Template">>,
          <<"import { FlowgladServer } from '", "{SERVER_PKG}", "'", "currentUser()">> >>,
       << <<"layoutImport">>, <<"import { FlowgladProvider } from '", "{PROVIDER_PKG}", "'">> >>,
       << <<"layoutProvider">>, <<"<FlowgladProvider loadBilling={!!userId}>">> >> >>

CustomSnippets ==
    << << <<"serverInit", "Template">>,
          <<"import { FlowgladServer } from '", "{SERVER_PKG}", "'", "getSessionUser()">> >>,
       << <<"layoutImport">>, <<"import { FlowgladProvider } from '", "{PROVIDER_PKG}", "'">> >>,
       << <<"layoutProvider">>, <<"<FlowgladProvider loadBilling={true}>">> >>,
       << <<"layoutProviderClose">>, <<"</FlowgladProvider>">> >> >>

LibraryFrameworks == << <<"nextjs", NextjsFramework>>, <<"react", ReactFramework>> >>

LibraryFilePaths ==
    << <<"app", <<"app/api/flowglad/[...path]/route.ts">> >>,
       <<"src/app", <<"src/app/api/flowglad/[...path]/route.ts">> >> >>

WellFormedLibrary ==
    << <<"base", << <<"clerk", ClerkSnippets>>, <<"custom", CustomSnippets>> >> >>,
       <<"frameworks", LibraryFrameworks>>,
       <<"filePaths", LibraryFilePaths>> >>

LibraryWithoutBase ==
    << <<"frameworks", LibraryFrameworks>>, <<"filePaths", LibraryFilePaths>> >>

LibraryWithoutFrameworks ==
    << <<"base", << <<"clerk", ClerkSnippets>> >> >> >>

SnippetLibraries == {WellFormedLibrary, LibraryWithoutBase, LibraryWithoutFrameworks}

\* What getPricingModelSetupData may return: a configuration with one toggle
\* feature and neither meters nor trials, and one with a trial and a meter.
ToggleConfig ==
    [products |-> << [product |-> [name |-> <<"Pro">>, slug |-> <<"pro">>],
                      prices |-> << [trialPeriodDays |-> Null] >>] >>,
     features |-> << [type |-> "toggle", slug |-> <<"ai-copilot">>] >>,
     usageMeters |-> <<>>]

MeteredConfig ==
    [products |-> << [product |-> [name |-> Undefined, slug |-> <<"team">>],
                      prices |-> << [trialPeriodDays |-> <<"14">>] >>] >>,
     features |-> << [type |-> "usage_credit_grant", slug |-> <<"credits">>] >>,
     usageMeters |-> << [slug |-> <<"api_calls">>, name |-> <<"API Calls">>] >>]

PricingConfigs == {ToggleConfig, MeteredConfig}

\* A configuration analyzePricingModel cannot read: a product without prices
\* (p.prices.some raises a TypeError).
ConfigWithoutPrices ==
    [products |-> << [product |-> [name |-> <<"Pro">>, slug |-> <<"pro">>]] >>,
     features |-> <<>>,
     usageMeters |-> <<>>]

\* The analysis documents an invocation is given.

ReactClerkAnalysis ==
    Line(H1) \o Answered(QFramework, <<"React">>)
    \o Line(H2) \o Answered(QLib, <<"src/pages">>)
    \o Line(H3) \o Answered(QAuth, <<"Clerk">>)

PlainAnalysis == Line(<<"text">>)

NotFoundStatus == <<"No default pricing model found for your organization.">>
YamlFailedStatus == <<"Failed to generate YAML from pricing model data.">>
AnalysisFailedStatus == <<"Pricing model data was found but analysis failed.">>

(***************************************************************************)
(* Spec: one invocation of getSetupInstructions or of analyzeCodebase.     *)
(* Every await is two steps (started, settled); what the outside world     *)
(* answers is chosen when the await settles.                               *)
(***************************************************************************)
\* No tool is invoked: the variables of an invocation stay as they are here.
NoInvocation ==
    /\ apiKey = <<>>
    /\ authToken = Undefined
    /\ envKey = Undefined
    /\ fileContents = Undefined
    /\ projectRoot = Undefined
    /\ codebaseAnalysis = Undefined
    /\ pricingComponents = <<>>
    /\ pc = "idle"
    /\ manualProjectStructure = Undefined
    /\ manualStackDetails = Undefined
    /\ bearerToken = Undefined
    /\ acBearerToken = Undefined
    /\ analyzeResult = Undefined
    /\ codebaseInfo = NullObject
    /\ finalProjectStructure = Undefined
    /\ finalStackDetails = Undefined
    /\ pricingModelData = NullObject
    /\ pricingModelYAML = Null
    /\ pricingModelAnalysis = NullObject
    /\ generationTemplate = Undefined
    /\ snippets = Undefined
    /\ templateReplacements = Undefined
    /\ customizedInstructions = Undefined
    /\ pricingModelInstructions = Undefined
    /\ result = Undefined
    /\ thrown = Undefined
    /\ console = <<>>
    /\ trace = <<>>

\* extractCodebaseInfo is not driven on its own.
NoExtraction ==
    /\ xpc = "idle"
    /\ xdoc = Undefined
    /\ xdefaultPaths = <<>>
    /\ xinfo = NullObject
    /\ xprev = NullObject
    /\ xcalls = 0

\* applyTemplateReplacements is not driven on its own.
NoApplication ==
    /\ atemplate = <<>>
    /\ areplacements = <<>>
    /\ aresults = <<>>

\* resolveSnippets is not driven on its own.
NoResolution ==
    /\ spc = "idle"
    /\ slibrary = <<>>
    /\ sframeworkKey = "nextjs"
    /\ sresolved = Undefined

\* the pricing functions are not driven on their own.
NoPricing ==
    /\ ppc = "idle"
    /\ pdata = NullObject
    /\ panalysis = NullObject
    /\ pinstructions = Undefined

NoClassification ==
    /\ ktext = <<>>
    /\ kkeys = <<>>

Init ==
    /\ tool \in {"getSetupInstructions", "analyzeCodebase"}
    /\ apiKey \in {<<>>, <<" ">>, <<"k">>}
    /\ authToken \in {Undefined, <<"t">>}
    /\ envKey \in {Undefined, <<"e">>, BearerPrefix \o <<"e">>}
    /\ fileContents \in
            IF tool = "getSetupInstructions"
            THEN {Undefined, <<>>, <<"A">>}
            ELSE {Undefined, NotAnArray, <<>>, <<"A", "B">>,
                  <<"NoPath", "A", "NoContent">>, <<"NoPath">>}
    /\ projectRoot \in
            IF tool = "getSetupInstructions" THEN {Undefined}
            ELSE {Undefined, <<"/home/app">>}
    /\ codebaseAnalysis \in
            IF tool = "getSetupInstructions"
            THEN {Undefined, <<>>, ReactClerkAnalysis, PlainAnalysis}
            ELSE {Undefined}
    /\ pricingComponents = <<"[subscription]">>
    /\ pc = IF tool = "getSetupInstructions" THEN "gsi_start" ELSE "ac_start"
    /\ manualProjectStructure = Undefined
    /\ manualStackDetails = Undefined
    /\ bearerToken = Undefined
    /\ acBearerToken = Undefined
    /\ analyzeResult = Undefined
    /\ codebaseInfo = NullObject
    /\ finalProjectStructure = Undefined
    /\ finalStackDetails = Undefined
    /\ pricingModelData = NullObject
    /\ pricingModelYAML = Null
    /\ pricingModelAnalysis = NullObject
    /\ generationTemplate = Undefined
    /\ snippets = Undefined
    /\ templateReplacements = Undefined
    /\ customizedInstructions = Undefined
    /\ pricingModelInstructions = Undefined
    /\ result = Undefined
    /\ thrown = Undefined
    /\ console = <<>>
    /\ trace = <<>>
    /\ NoExtraction
    /\ NoApplication
    /\ NoResolution
    /\ NoPricing
    /\ NoClassification

Step(name) == trace' = Append(trace, name)

\* A faulty variant of the credential step: the verification of lines 129-134
\* is missing, the handler goes on with a blank credential.
ResolveCredential_Unverified ==
    /\ pc = "gsi_start"
    /\ bearerToken' = ResolveSetupToken(apiKey, envKey)
    /\ pc' = "gsi_branch"
    /\ Step("credential")
    /\ UNCHANGED <<inputs, manualProjectStructure, manualStackDetails,
                   acBearerToken, analyzeResult, codebaseInfo,
                   finalProjectStructure, finalStackDetails, pricingModelData,
                   pricingModelYAML, pricingModelAnalysis, generationTemplate,
                   snippets, templateReplacements, customizedInstructions,
                   pricingModelInstructions, result, thrown, console, fvars>>

\* ---- getSetupInstructions, lines 116-137: the credential ----
ResolveCredential ==
    /\ pc = "gsi_start"
    /\ bearerToken' = ResolveSetupToken(apiKey, envKey)
    /\ IF IsBlank(bearerToken')
       THEN /\ thrown' = NoApiKeyError
            /\ pc' = "failed"
            /\ Step("credential")
       ELSE /\ pc' = "gsi_branch"
            /\ Step("credential")
            /\ UNCHANGED thrown
    /\ UNCHANGED <<inputs, manualProjectStructure, manualStackDetails,
                   acBearerToken, analyzeResult, codebaseInfo,
                   finalProjectStructure, finalStackDetails, pricingModelData,
                   pricingModelYAML, pricingModelAnalysis, generationTemplate,
                   snippets, templateReplacements, customizedInstructions,
                   pricingModelInstructions, result, console, fvars>>

\* A faulty variant of the branch condition: one file is not enough to ask
\* for the analysis first.
NeedsAnalysis_SeveralFiles(files, analysis) ==
    files # Undefined /\ Len(files) > 1 /\ ~Truthy(analysis)

\* fileContents && fileContents.length > 0 && !codebaseAnalysis
NeedsAnalysis(files, analysis) ==
    files # Undefined /\ Len(files) > 0 /\ ~Truthy(analysis)

\* ---- lines 139-152: the nested call of analyzeCodebase ----
Delegate ==
    /\ pc = "gsi_branch"
    /\ NeedsAnalysis(fileContents, codebaseAnalysis)
    /\ pc' = "ac_start"
    /\ Step("delegate")
    /\ UNCHANGED <<inputs, locals, result, thrown, console, fvars>>

\* ---- analyzeCodebase, lines 50-144: the token, the validation ----
AnalyzeReturn(text) ==
    IF tool = "getSetupInstructions"
    THEN /\ analyzeResult' = text
         /\ pc' = "gsi_redirect"
         /\ UNCHANGED result
    ELSE /\ result' = text
         /\ pc' = "done"
         /\ UNCHANGED analyzeResult

AnalyzeValidate ==
    /\ pc = "ac_start"
    /\ acBearerToken' =
            IF tool = "getSetupInstructions"
            THEN ResolveAnalyzeToken(Undefined, bearerToken, envKey)
            ELSE ResolveAnalyzeToken(authToken, apiKey, envKey)
    /\ console' = IF IsBlank(acBearerToken')
                  THEN Append(console, "warn: No bearer token found")
                  ELSE console
    /\ IF fileContents = Undefined \/ ~IsArray(fileContents)
       THEN AnalyzeReturn(NotAnArrayError) /\ Step("analyze:return")
       ELSE IF FilterValid(fileContents) = <<>>
       THEN AnalyzeReturn(NoValidFilesError) /\ Step("analyze:return")
       ELSE /\ pc' = "ac_reading"
            /\ Step("read:start:prompt")
            /\ UNCHANGED <<analyzeResult, result>>
    /\ UNCHANGED <<inputs, manualProjectStructure, manualStackDetails,
                   bearerToken, codebaseInfo, finalProjectStructure,
                   finalStackDetails, pricingModelData, pricingModelYAML,
                   pricingModelAnalysis, generationTemplate, snippets,
                   templateReplacements, customizedInstructions,
                   pricingModelInstructions, thrown, fvars>>

\* ---- lines 146-184: the prompt is read and the request is returned ----
AnalyzePromptRead ==
    /\ pc = "ac_reading"
    /\ AnalyzeReturn(FullAnalysisRequest(AnalysisPrompt, projectRoot,
                                         FilterValid(fileContents)))
    /\ trace' = trace \o <<"read:end:prompt", "analyze:return">>
    /\ UNCHANGED <<inputs, manualProjectStructure, manualStackDetails,
                   bearerToken, acBearerToken, codebaseInfo,
                   finalProjectStructure, finalStackDetails, pricingModelData,
                   pricingModelYAML, pricingModelAnalysis, generationTemplate,
                   snippets, templateReplacements, customizedInstructions,
                   pricingModelInstructions, thrown, console, fvars>>

\* A faulty variant of the failing read: the error leaves the handler instead
\* of being returned as text.
AnalyzePromptFails_Rethrown ==
    /\ pc = "ac_reading"
    /\ thrown' = ReadError
    /\ pc' = "failed"
    /\ trace' = trace \o <<"read:fail:prompt">>
    /\ UNCHANGED <<inputs, manualProjectStructure, manualStackDetails,
                   bearerToken, acBearerToken, analyzeResult, codebaseInfo,
                   finalProjectStructure, finalStackDetails, pricingModelData,
                   pricingModelYAML, pricingModelAnalysis, generationTemplate,
                   snippets, templateReplacements, customizedInstructions,
                   pricingModelInstructions, result, console, fvars>>

\* ---- lines 185-194: the read fails and the catch returns the message ----
AnalyzePromptFails ==
    /\ pc = "ac_reading"
    /\ AnalyzeReturn(AnalyzeCaughtError(ReadError))
    /\ trace' = trace \o <<"read:fail:prompt", "analyze:return">>
    /\ UNCHANGED <<inputs, manualProjectStructure, manualStackDetails,
                   bearerToken, acBearerToken, codebaseInfo,
                   finalProjectStructure, finalStackDetails, pricingModelData,
                   pricingModelYAML, pricingModelAnalysis, generationTemplate,
                   snippets, templateReplacements, customizedInstructions,
                   pricingModelInstructions, thrown, console, fvars>>

\* ---- getSetupInstructions, lines 154-181: the redirect is returned ----
Redirect ==
    /\ pc = "gsi_redirect"
    /\ result' = RedirectText(pricingComponents, analyzeResult)
    /\ pc' = "done"
    /\ Step("return")
    /\ UNCHANGED <<inputs, locals, thrown, console, fvars>>


\* args.projectStructure: absent or a member of the schema's enum
ManualStructures == {Undefined, <<"nextjs">>, <<"react">>}

\* args.stackDetails: absent, the empty string or a text
ManualDetails == {Undefined, <<>>, <<"src/pages">>}

\* A faulty variant of the generation branch: the early return of lines 139-182
\* does not keep the handler from going on.
StartGeneration_Unguarded ==
    /\ pc = "gsi_branch"
    /\ manualProjectStructure' = Undefined
    /\ manualStackDetails' = Undefined
    /\ codebaseInfo' = extractCodebaseInfo(codebaseAnalysis, <<>>)
    /\ finalProjectStructure' = OrElse(codebaseInfo'.projectStructure, <<"nextjs">>)
    /\ finalStackDetails' =
            OrElse(codebaseInfo'.stackDetails, <<"No stack details provided.">>)
    /\ pc' = "gsi_fetching"
    /\ trace' = trace \o <<"extract", "fetch:start">>
    /\ UNCHANGED <<inputs, bearerToken, acBearerToken, analyzeResult,
                   pricingModelData, pricingModelYAML, pricingModelAnalysis,
                   generationTemplate, snippets, templateReplacements,
                   customizedInstructions, pricingModelInstructions, result,
                   thrown, console, fvars>>

\* A faulty variant of the manual fallbacks: the extracted value is looked
\* at before the call argument.
StartGeneration_ExtractedFirst ==
    /\ pc = "gsi_branch"
    /\ ~NeedsAnalysis(fileContents, codebaseAnalysis)
    /\ \E structure \in ManualStructures, details \in ManualDetails :
            /\ manualProjectStructure' = structure
            /\ manualStackDetails' = details
    /\ codebaseInfo' = extractCodebaseInfo(codebaseAnalysis, <<>>)
    /\ finalProjectStructure' =
            OrElse(codebaseInfo'.projectStructure,
                   OrElse(manualProjectStructure', <<"nextjs">>))
    /\ finalStackDetails' =
            OrElse(codebaseInfo'.stackDetails,
                   OrElse(manualStackDetails', <<"No stack details provided.">>))
    /\ pc' = "gsi_fetching"
    /\ trace' = trace \o <<"extract", "fetch:start">>
    /\ UNCHANGED <<inputs, bearerToken, acBearerToken, analyzeResult,
                   pricingModelData, pricingModelYAML, pricingModelAnalysis,
                   generationTemplate, snippets, templateReplacements,
                   customizedInstructions, pricingModelInstructions, result,
                   thrown, console, fvars>>

\* ---- lines 184-228: extraction, the manual fallbacks, the fetch starts ----
StartGeneration ==
    /\ pc = "gsi_branch"
    /\ ~NeedsAnalysis(fileContents, codebaseAnalysis)
    /\ \E structure \in ManualStructures, details \in ManualDetails :
            /\ manualProjectStructure' = structure
            /\ manualStackDetails' = details
    /\ codebaseInfo' = extractCodebaseInfo(codebaseAnalysis, <<>>)
    /\ finalProjectStructure' =
            OrElse(manualProjectStructure',
                   OrElse(codebaseInfo'.projectStructure, <<"nextjs">>))
    /\ finalStackDetails' =
            OrElse(manualStackDetails',
                   OrElse(codebaseInfo'.stackDetails,
                          <<"No stack details provided.">>))
    /\ pc' = "gsi_fetching"
    /\ trace' = trace \o <<"extract", "fetch:start">>
    /\ UNCHANGED <<inputs, bearerToken, acBearerToken, analyzeResult,
                   pricingModelData, pricingModelYAML, pricingModelAnalysis,
                   generationTemplate, snippets, templateReplacements,
                   customizedInstructions, pricingModelInstructions, result,
                   thrown, console, fvars>>

\* What every settlement of the fetch leaves alone; the template read starts.
AfterFetch(settled) ==
    /\ pc' = "gsi_template"
    /\ trace' = trace \o <<settled, "read:start:template">>
    /\ UNCHANGED <<inputs, manualProjectStructure, manualStackDetails,
                   bearerToken, acBearerToken, analyzeResult, codebaseInfo,
                   finalProjectStructure, finalStackDetails,
                   generationTemplate, snippets, templateReplacements,
                   customizedInstructions, pricingModelInstructions, result,
                   thrown, fvars>>

\* ---- lines 218-220, 245-249: the organization has no default model ----
FetchAbsent ==
    /\ pc = "gsi_fetching"
    /\ AfterFetch("fetch:end")
    /\ UNCHANGED <<pricingModelData, pricingModelYAML, pricingModelAnalysis,
                   console>>

\* A faulty variant of the catch of lines 250-257: the error is raised again.
FetchThrows_Rethrown ==
    /\ pc = "gsi_fetching"
    /\ thrown' = <<"fetch failed">>
    /\ pc' = "failed"
    /\ Step("fetch:fail")
    /\ UNCHANGED <<inputs, locals, result, console, fvars>>

\* A faulty variant of the catch of lines 250-257: the fetch is started again.
FetchThrows_Retried ==
    /\ pc = "gsi_fetching"
    /\ Len(trace) < 6
    /\ console' = Append(console, "warn: Failed to fetch pricing model")
    /\ trace' = trace \o <<"fetch:fail", "fetch:start">>
    /\ UNCHANGED <<inputs, locals, pc, result, thrown, fvars>>

\* ---- lines 250-257: the fetch throws, the catch warns and goes on ----
FetchThrows ==
    /\ pc = "gsi_fetching"
    /\ console' = Append(console, "warn: Failed to fetch pricing model")
    /\ AfterFetch("fetch:fail")
    /\ UNCHANGED <<pricingModelData, pricingModelYAML, pricingModelAnalysis>>

\* ---- lines 230-237: a configuration is found and rendered ----
FetchFound ==
    /\ pc = "gsi_fetching"
    /\ \E data \in PricingConfigs :
            /\ pricingModelData' = data
            /\ pricingModelYAML' = YamlOf(data)
            /\ pricingModelAnalysis' = analyzePricingModel(data)
    /\ AfterFetch("fetch:end")
    /\ UNCHANGED console

\* ---- lines 238-244: a configuration is found, yaml.stringify throws ----
FetchFoundYamlFails ==
    /\ pc = "gsi_fetching"
    /\ \E data \in PricingConfigs : pricingModelData' = data
    /\ console' = Append(console, "error: Failed to stringify pricing model to YAML")
    /\ AfterFetch("fetch:end")
    /\ UNCHANGED <<pricingModelYAML, pricingModelAnalysis>>

\* ---- lines 232-244: the configuration is rendered, analyzePricingModel
\*      throws, the same catch logs the error ----
FetchFoundAnalysisFails ==
    /\ pc = "gsi_fetching"
    /\ pricingModelData' = ConfigWithoutPrices
    /\ pricingModelYAML' = YamlOf(ConfigWithoutPrices)
    /\ console' = Append(console, "error: Failed to stringify pricing model to YAML")
    /\ AfterFetch("fetch:end")
    /\ UNCHANGED pricingModelAnalysis

\* ---- line 260: the template is read, the snippet read starts ----
TemplateRead ==
    /\ pc = "gsi_template"
    /\ generationTemplate' = GenerationTemplate
    /\ pc' = "gsi_snippets"
    /\ trace' = trace \o <<"read:end:template", "read:start:snippets">>
    /\ UNCHANGED <<inputs, manualProjectStructure, manualStackDetails,
                   bearerToken, acBearerToken, analyzeResult, codebaseInfo,
                   finalProjectStructure, finalStackDetails, pricingModelData,
                   pricingModelYAML, pricingModelAnalysis, snippets,
                   templateReplacements, customizedInstructions,
                   pricingModelInstructions, result, thrown, console, fvars>>

\* A faulty variant of a rejected await: the error is turned into a status
\* text and returned.
Throw_Swallowed(error) ==
    /\ result' = <<"---", "## Pricing Model Status">> \o error
    /\ pc' = "done"
    /\ UNCHANGED <<inputs, manualProjectStructure, manualStackDetails,
                   bearerToken, acBearerToken, analyzeResult, codebaseInfo,
                   finalProjectStructure, finalStackDetails, pricingModelData,
                   pricingModelYAML, pricingModelAnalysis, generationTemplate,
                   customizedInstructions, pricingModelInstructions, thrown,
                   console, fvars>>

\* A rejected await: the error leaves the handler, nothing is returned.
Throw(error) ==
    /\ thrown' = error
    /\ pc' = "failed"
    /\ UNCHANGED <<inputs, manualProjectStructure, manualStackDetails,
                   bearerToken, acBearerToken, analyzeResult, codebaseInfo,
                   finalProjectStructure, finalStackDetails, pricingModelData,
                   pricingModelYAML, pricingModelAnalysis, generationTemplate,
                   customizedInstructions, pricingModelInstructions, result,
                   console, fvars>>

\* ---- line 260: fs.readFile of the template rejects ----
TemplateFails ==
    /\ pc = "gsi_template"
    /\ Throw(ReadError)
    /\ trace' = Append(trace, "read:fail:template")
    /\ UNCHANGED <<snippets, templateReplacements>>

\* ---- line 261: fs.readFile of the snippets rejects, or JSON.parse throws ----
SnippetsFail ==
    /\ pc = "gsi_snippets"
    /\ Throw(ReadError)
    /\ trace' = Append(trace, "read:fail:snippets")
    /\ UNCHANGED <<snippets, templateReplacements>>


\* ---- lines 280-291: the analysis document is put in front ----
PrependAnalysis(analysis, customized) ==
    IF Truthy(analysis)
    THEN <<"# Codebase Analysis">> \o analysis
         \o <<"---", "# Flowglad Integration Instructions">> \o customized
    ELSE customized

\* pricingModelYAML && pricingModelData && pricingModelAnalysis
PricingModelFound(yamlText, data, analysis) ==
    /\ yamlText # Null
    /\ yamlText # <<>>
    /\ data # NullObject
    /\ analysis # NullObject

\* A faulty variant of the status ternary: a failed serialization reads as
\* "not found".
PricingModelStatus_OneMessage(yamlText, data) ==
    IF data = NullObject \/ yamlText = Null THEN NotFoundStatus
    ELSE AnalysisFailedStatus

\* ---- lines 321-326: the status ternary ----
PricingModelStatus(yamlText, data) ==
    IF data = NullObject THEN NotFoundStatus
    ELSE IF yamlText = Null THEN YamlFailedStatus
    ELSE AnalysisFailedStatus

\* A faulty variant of the final text: the status section follows also when
\* the configuration section was written.
FinalInstructions_StatusAlways(customized, yamlText, data, instructions) ==
    (IF instructions # Undefined
     THEN customized
          \o <<"# Pricing Model Configuration", "[yaml fence]">> \o yamlText
          \o <<"[fence]">>
          \o (IF instructions # <<>> THEN <<NL>> \o instructions ELSE <<>>)
     ELSE customized)
    \o <<"---", "## Pricing Model Status">>
    \o PricingModelStatus(yamlText, data)
    \o <<"To use pricing model-specific instructions, ensure you have:">>

\* ---- lines 293-340: finalInstructions ----
FinalInstructions(customized, yamlText, data, instructions) ==
    IF instructions # Undefined
    THEN customized
         \o <<"# Pricing Model Configuration", "[yaml fence]">> \o yamlText
         \o <<"[fence]">>
         \o (IF instructions # <<>> THEN <<NL>> \o instructions ELSE <<>>)
    ELSE customized
         \o <<"---", "## Pricing Model Status">>
         \o PricingModelStatus(yamlText, data)
         \o <<"To use pricing model-specific instructions, ensure you have:">>

\* ---- lines 261-349: the library is parsed; the token map is built, applied,
\*      the pricing instructions are composed, the final text is returned ----
SnippetsRead ==
    /\ pc = "gsi_snippets"
    /\ \E library \in SnippetLibraries : snippets' = library
    /\ templateReplacements' =
            buildTemplateReplacements(
                [codebaseInfo |-> codebaseInfo,
                 codebaseAnalysis |-> codebaseAnalysis,
                 pricingModelData |-> pricingModelData,
                 snippets |-> snippets',
                 finalProjectStructure |-> finalProjectStructure,
                 finalStackDetails |-> finalStackDetails])
    /\ IF templateReplacements' = TypeError
       THEN /\ thrown' = TypeError
            /\ pc' = "failed"
            /\ trace' = trace \o <<"read:end:snippets", "build">>
            /\ UNCHANGED <<customizedInstructions, pricingModelInstructions,
                           result>>
       ELSE /\ customizedInstructions' =
                    PrependAnalysis(codebaseAnalysis,
                        applyTemplateReplacements(generationTemplate,
                                                  templateReplacements'))
            /\ pricingModelInstructions' =
                    IF PricingModelFound(pricingModelYAML, pricingModelData,
                                         pricingModelAnalysis)
                    THEN constructPricingModelInstructions(pricingModelData,
                                                           pricingModelAnalysis)
                    ELSE Undefined
            /\ result' = FinalInstructions(customizedInstructions',
                                           pricingModelYAML, pricingModelData,
                                           pricingModelInstructions')
            /\ pc' = "done"
            /\ trace' = trace
                    \o <<"read:end:snippets", "build", "apply">>
                    \o (IF pricingModelInstructions' # Undefined
                        THEN <<"compose">> ELSE <<>>)
                    \o <<"concat", "return">>
            /\ UNCHANGED thrown
    /\ UNCHANGED <<inputs, manualProjectStructure, manualStackDetails,
                   bearerToken, acBearerToken, analyzeResult, codebaseInfo,
                   finalProjectStructure, finalStackDetails, pricingModelData,
                   pricingModelYAML, pricingModelAnalysis, generationTemplate,
                   console, fvars>>

Next ==
    \/ ResolveCredential
    \/ Delegate
    \/ AnalyzeValidate
    \/ AnalyzePromptRead
    \/ AnalyzePromptFails
    \/ Redirect
    \/ StartGeneration
    \/ FetchAbsent
    \/ FetchThrows
    \/ FetchFound
    \/ FetchFoundYamlFails
    \/ FetchFoundAnalysisFails
    \/ TemplateRead
    \/ TemplateFails
    \/ SnippetsFail
    \/ SnippetsRead

Spec == Init /\ [][Next]_vars

(***************************************************************************)
(* SpecExtract: extractCodebaseInfo called on its own, up to MaxCalls      *)
(* times with the same arguments.                                          *)
(***************************************************************************)
XInit ==
    /\ XStart
    /\ tool = "extractCodebaseInfo"
    /\ NoInvocation
    /\ NoApplication
    /\ NoResolution
    /\ NoPricing
    /\ NoClassification

SpecExtract == XInit /\ [][XNext]_vars


(***************************************************************************)
(* Properties of an invocation (Spec).                                     *)
(***************************************************************************)
\* the step was taken
Happened(step) == \E i \in 1..Len(trace) : trace[i] = step

\* how many times the step was taken
Count(step) == Cardinality({i \in 1..Len(trace) : trace[i] = step})

\* the steps of the generation path, in the order of lines 184-349
GenerationSteps ==
    <<"extract", "fetch:start", "fetch:end", "fetch:fail", "build", "apply",
      "compose", "concat">>

\* the reads and the fetch: their starts and their settlements
IOStarts ==
    {"fetch:start", "read:start:prompt", "read:start:template",
     "read:start:snippets"}

IOSettlements ==
    {"fetch:end", "fetch:fail", "read:end:prompt", "read:fail:prompt",
     "read:end:template", "read:fail:template", "read:end:snippets",
     "read:fail:snippets"}

\* the settlements that answer a start
SettlementsOf(start) ==
    CASE start = "fetch:start" -> {"fetch:end", "fetch:fail"}
      [] start = "read:start:prompt" -> {"read:end:prompt", "read:fail:prompt"}
      [] start = "read:start:template" ->
            {"read:end:template", "read:fail:template"}
      [] start = "read:start:snippets" ->
            {"read:end:snippets", "read:fail:snippets"}

\* the text is a generation document: it carries the template's title
IsGenerationDocument(text) ==
    Includes(text, "## Prompt: Integrate Flowglad Billing Into a ")

\* the text carries the configuration section with its YAML block
HasPricingSection(text) ==
    Includes(text, "# Pricing Model Configuration") \/ Includes(text, "[yaml fence]")

\* C1: getSetupInstructions with a resolvable credential, a non-empty
\* fileContents and no codebaseAnalysis never extracts, fetches or loads the
\* template or the snippets and never fails; it calls analyzeCodebase, and
\* what it returns is the redirect text, which tells the caller to call
\* getSetupInstructions again with codebaseAnalysis and is not a generation
\* document.
C1_RedirectWithoutGeneration ==
    (/\ tool = "getSetupInstructions"
     /\ fileContents # Undefined
     /\ Len(fileContents) > 0
     /\ ~Truthy(codebaseAnalysis)
     /\ ~IsBlank(apiKey) \/ ~IsBlank(envKey))
    => /\ ~Happened("extract")
       /\ ~Happened("fetch:start")
       /\ ~Happened("read:start:template")
       /\ ~Happened("read:start:snippets")
       /\ codebaseInfo = NullObject
       /\ generationTemplate = Undefined
       /\ snippets = Undefined
       /\ thrown = Undefined
       /\ pc \in {"gsi_start", "gsi_branch", "ac_start", "ac_reading",
                  "gsi_redirect", "done"}
       /\ pc \in {"ac_start", "ac_reading", "gsi_redirect", "done"}
            => Happened("delegate")
       /\ pc = "done"
            => /\ Happened("analyze:return")
               /\ result[1] = "# Codebase Analysis Required"
               /\ Includes(result, "call getSetupInstructions again with:")
               /\ Includes(result,
                    "- codebaseAnalysis: The complete markdown document from your analysis")
               /\ SubSeq(result, Len(result) - Len(analyzeResult) + 1, Len(result))
                    = analyzeResult
               /\ ~IsGenerationDocument(result)
               /\ ~HasPricingSection(result)
               /\ ~Includes(result, "## Pricing Model Status")

C1_Witness ==
    /\ tool = "getSetupInstructions"
    /\ pc = "done"
    /\ fileContents = <<"A">>
    /\ codebaseAnalysis = Undefined
    /\ Happened("delegate")
    /\ Happened("read:end:prompt")
    /\ result[1] = "# Codebase Analysis Required"

\* no credential in any of the three sources
NoCredential == IsBlank(apiKey) /\ IsBlank(authToken) /\ IsBlank(envKey)

\* C2: with no credential in any source, the first step of
\* getSetupInstructions raises the missing-credential error; nothing was
\* delegated, extracted, fetched or read before, nothing is returned, also
\* when fileContents comes without codebaseAnalysis.
C2_MissingCredentialIsImmediate ==
    (tool = "getSetupInstructions" /\ NoCredential /\ pc # "gsi_start")
    => /\ pc = "failed"
       /\ thrown = NoApiKeyError
       /\ result = Undefined
       /\ trace = <<"credential">>
       /\ analyzeResult = Undefined
       /\ codebaseInfo = NullObject
       /\ pricingModelData = NullObject
       /\ generationTemplate = Undefined
       /\ snippets = Undefined
       /\ console = <<>>

C2_Witness ==
    /\ tool = "getSetupInstructions"
    /\ NoCredential
    /\ fileContents = <<"A">>
    /\ codebaseAnalysis = Undefined
    /\ pc = "failed"
    /\ thrown = NoApiKeyError

\* the fetch settled without a configuration: absent, or thrown and caught
FetchMissed ==
    /\ Happened("fetch:end") \/ Happened("fetch:fail")
    /\ pricingModelData = NullObject

\* C3: in a generation invocation with an analysis document, a fetch that
\* returns absent or throws raises nothing (an error can only come from a
\* later step, after the template read has settled), and the text returned
\* carries the 'No default pricing model found' status, no
\* '# Pricing Model Configuration' section and no YAML block.
C3_FetchMissIsNotFatal ==
    (tool = "getSetupInstructions" /\ Truthy(codebaseAnalysis) /\ FetchMissed)
    => /\ pc # "gsi_fetching"
       /\ thrown # Undefined
            => /\ thrown \in {ReadError, TypeError}
               /\ Happened("read:fail:template") \/ Happened("read:end:template")
       /\ pc = "gsi_template" => thrown = Undefined
       /\ pc = "done"
            => /\ thrown = Undefined
               /\ IsGenerationDocument(result)
               /\ Includes(result, NotFoundStatus[1])
               /\ ~HasPricingSection(result)
               /\ ~Includes(result, YamlFailedStatus[1])

C3_Witness ==
    /\ tool = "getSetupInstructions"
    /\ codebaseAnalysis = ReactClerkAnalysis
    /\ Happened("fetch:fail")
    /\ console # <<>>
    /\ pc = "done"
    /\ Includes(result, NotFoundStatus[1])

\* a configuration was found and yaml.stringify threw
YamlFailed ==
    /\ Happened("fetch:end")
    /\ pricingModelData # NullObject
    /\ pricingModelYAML = Null

\* C4: a configuration that is found and cannot be serialized raises nothing;
\* the text returned is a generation document whose status is the
\* 'Failed to generate YAML' message, which is not the not-found message.
C4_YamlFailureHasItsOwnStatus ==
    /\ YamlFailedStatus # NotFoundStatus
    /\ (tool = "getSetupInstructions" /\ YamlFailed)
       => /\ pc # "gsi_fetching"
          /\ thrown # Undefined
               => /\ thrown \in {ReadError, TypeError}
                  /\ Happened("read:fail:template") \/ Happened("read:end:template")
          /\ pc = "done"
               => /\ IsGenerationDocument(result)
                  /\ Includes(result, "## Pricing Model Status")
                  /\ Includes(result, YamlFailedStatus[1])
                  /\ ~Includes(result, NotFoundStatus[1])
                  /\ ~HasPricingSection(result)

C4_Witness ==
    /\ tool = "getSetupInstructions"
    /\ YamlFailed
    /\ pc = "done"
    /\ Includes(result, YamlFailedStatus[1])
    /\ console = <<"error: Failed to stringify pricing model to YAML">>


\* the generation steps taken so far, in the order taken
StepsTaken ==
    LET IsGenerationStep(step) ==
            \E i \in 1..Len(GenerationSteps) : GenerationSteps[i] = step
    IN SelectSeq(trace, IsGenerationStep)

\* the order of lines 184-349 for one invocation: the fetch settles one way,
\* the pricing instructions are composed when a configuration was rendered
ExpectedSteps ==
    <<"extract", "fetch:start">>
    \o (IF Happened("fetch:fail") THEN <<"fetch:fail">> ELSE <<"fetch:end">>)
    \o <<"build", "apply">>
    \o (IF pricingModelYAML # Null /\ pricingModelAnalysis # NullObject
        THEN <<"compose">> ELSE <<>>)
    \o <<"concat">>

\* C5: getSetupInstructions takes a generation step only when the analysis
\* document is present or fileContents is absent or empty; the steps taken
\* are always a prefix of: extraction, fetch (start, settlement), token map,
\* substitution, composition of the pricing instructions (when a
\* configuration was rendered), concatenation; a returned generation
\* document has taken all of them.
C5_GenerationOrder ==
    tool = "getSetupInstructions"
    => /\ StepsTaken # <<>>
            => \/ Truthy(codebaseAnalysis)
               \/ fileContents = Undefined
               \/ fileContents = <<>>
       /\ Len(StepsTaken) <= Len(ExpectedSteps)
       /\ StepsTaken = SubSeq(ExpectedSteps, 1, Len(StepsTaken))
       /\ (pc = "done" /\ StepsTaken # <<>>) => StepsTaken = ExpectedSteps
       /\ (pc = "done" /\ StepsTaken = <<>>) => Happened("delegate")

C5_Witness ==
    /\ tool = "getSetupInstructions"
    /\ fileContents = <<>>
    /\ codebaseAnalysis = Undefined
    /\ pc = "done"
    /\ StepsTaken =
        <<"extract", "fetch:start", "fetch:end", "build", "apply", "compose",
          "concat">>

\* the read of the template or of the snippet library failed
ResourceLoadFailed ==
    Happened("read:fail:template") \/ Happened("read:fail:snippets")

\* C6: when the read of the generation template or of the snippet library
\* fails, getSetupInstructions raises that error and returns nothing,
\* whether the fetch before found a configuration, found none or threw.
C6_ResourceFailurePropagates ==
    (tool = "getSetupInstructions" /\ ResourceLoadFailed)
    => /\ pc = "failed"
       /\ thrown = ReadError
       /\ result = Undefined
       /\ customizedInstructions = Undefined

C6_Witness ==
    /\ tool = "getSetupInstructions"
    /\ Happened("read:fail:snippets")
    /\ pricingModelData = ToggleConfig
    /\ pricingModelYAML # Null
    /\ pc = "failed"
    /\ thrown = ReadError

\* the starts and settlements of reads and of the fetch, in the order taken
IOTaken ==
    LET IsIO(step) == step \in IOStarts \cup IOSettlements
    IN SelectSeq(trace, IsIO)

\* C7: in an invocation of getSetupInstructions the fetch is started at most
\* once (never again after it threw), at most two static resources are read,
\* no resource twice, and every read or fetch is settled before the next one
\* starts.
C7_BoundedSequentialIO ==
    tool = "getSetupInstructions"
    => /\ Count("fetch:start") <= 1
       /\ Count("read:start:prompt") + Count("read:start:template")
            + Count("read:start:snippets") <= 2
       /\ \A start \in IOStarts : Count(start) <= 1
       /\ \A i \in 1..Len(IOTaken) :
            IF i % 2 = 1
            THEN IOTaken[i] \in IOStarts
            ELSE IOTaken[i] \in SettlementsOf(IOTaken[i - 1])

C7_Witness ==
    /\ tool = "getSetupInstructions"
    /\ pc = "done"
    /\ IOTaken =
        <<"fetch:start", "fetch:fail", "read:start:template",
          "read:end:template", "read:start:snippets", "read:end:snippets">>

\* c without a leading "Bearer " and without surrounding blanks
Normalized(c) ==
    LET text == OrElse(c, <<>>)
    IN IF StartsWith(text, BearerPrefix)
       THEN Trim(Substring(text, Len(BearerPrefix)))
       ELSE Trim(text)

\* the first non-blank source in the order apiKey, authInfo.token, MCP_API_KEY
FirstPresent(key, token, env) ==
    IF ~IsBlank(key) THEN key
    ELSE IF ~IsBlank(token) THEN token
    ELSE OrElse(env, <<>>)

\* C8: the credential each tool resolves is the first present one in the
\* order apiKey, authInfo.token, MCP_API_KEY, and getSetupInstructions fails
\* exactly when all three are absent.  (The code does not do this.)
C8_CredentialPriority ==
    LET expected == Normalized(FirstPresent(apiKey, authToken, envKey))
    IN /\ (tool = "getSetupInstructions" /\ bearerToken # Undefined)
            => /\ Normalized(bearerToken) = expected
               /\ (thrown = NoApiKeyError) <=> NoCredential
       /\ (tool = "analyzeCodebase" /\ acBearerToken # Undefined)
            => Normalized(acBearerToken) = expected


(***************************************************************************)
(* Properties of extractCodebaseInfo (SpecExtract).                        *)
(***************************************************************************)
\* the record of lines 39-65 for the overrides of this run: the scalar
\* defaults, and per role the caller's path when given, else the built-in
DefaultRecord ==
    [framework |-> <<"Next.js">>,
     language |-> <<"TypeScript">>,
     authLibrary |-> <<"unknown">>,
     customerModel |-> <<"B2C">>,
     customerIdSource |-> <<"user.id">>,
     projectStructure |-> Undefined,
     stackDetails |-> Undefined,
     additionalDetails |-> Undefined,
     filePaths |->
        [role \in Roles |->
            IF role \in DOMAIN xdefaultPaths THEN xdefaultPaths[role]
            ELSE BuiltInPaths[role]]]

\* C9: for an absent analysis document (undefined or empty) and any override
\* record, extractCodebaseInfo returns the built-in defaults with the
\* overrides put over the built-in file paths, nothing else; a second call
\* with the same arguments returns an identical record.
C9_AbsentDocumentGivesDefaults ==
    (xcalls >= 1 /\ ~Truthy(xdoc))
    => /\ xinfo = DefaultRecord
       /\ xcalls >= 2 => xprev = xinfo

C9_Witness ==
    /\ xcalls = 2
    /\ xdoc = Undefined
    /\ DOMAIN xdefaultPaths # {}
    /\ xinfo.filePaths.libPath = <<"lib">>
    /\ xinfo.filePaths.serverFile = <<"src/lib/flowglad.ts">>
    /\ xprev = xinfo

\* the fields of the record whose default is a value (the other three,
\* projectStructure, stackDetails and additionalDetails, default to undefined)
DefaultedFields ==
    {"framework", "language", "authLibrary", "customerModel", "customerIdSource"}

MarkerPositions(marker) ==
    IF Truthy(xdoc) THEN {i \in 1..Len(xdoc) : xdoc[i] = marker} ELSE {}

\* C11: extractCodebaseInfo returns customerModel B2B exactly when the marker
\* '**B2B**: Businesses' occurs and the marker '**B2C**: Individual users'
\* either does not occur or first occurs after the first B2B marker; in every
\* other case (only B2C, neither, B2C first, no document) it returns B2C.
C11_CustomerModelByMarkerOrder ==
    xcalls >= 1
    => LET b2b == MarkerPositions(B2BMarker)
           b2c == MarkerPositions(B2CMarker)
           organizational ==
                /\ b2b # {}
                /\ b2c = {} \/ \E i \in b2b : \A j \in b2c : i < j
       IN xinfo.customerModel = IF organizational THEN <<"B2B">> ELSE <<"B2C">>

C11_Witness ==
    /\ xcalls >= 1
    /\ MarkerPositions(B2BMarker) # {}
    /\ MarkerPositions(B2CMarker) # {}
    /\ xinfo.customerModel = <<"B2B">>


(***************************************************************************)
(* applyTemplateReplacements on strings of characters (SpecApply).         *)
(*                                                                         *)
(* In Spec a template is a sequence of tokens and every key is one token.  *)
(* Here the template, the keys and the values are strings of single        *)
(* characters, and each entry is applied as the code applies it: the key   *)
(* becomes the source of a global regular expression after its braces are  *)
(* escaped, and the value is the replacement string of String.replace.     *)
(* Keys are non-empty strings over braces, letters and the dot; values     *)
(* are strings over braces, letters, "$" and "&".                          *)
(***************************************************************************)
MaxTemplateLen == 4
MaxEntries == 2

TemplateCharacters == {"{", "A", "B", "}"}

Templates == UNION {[1..n -> TemplateCharacters] : n \in 0..MaxTemplateLen}

TokenKeys ==
    { <<"{", "A", "}">>, <<"{", "B", "}">>, <<"{", ".", "}">> }

TokenValues ==
    { <<"x">>, <<"{", "B", "}">>, <<"A", "}">>, <<"$", "&">> }

\* the records a caller can pass: up to MaxEntries entries, no key twice
TokenMaps ==
    UNION { { m \in [1..n -> TokenKeys \X TokenValues] :
                \A i, j \in 1..n : i # j => m[i][1] # m[j][1] }
            : n \in 0..MaxEntries }

\* placeholder.replace(/[{}]/g, '\\$&'): a backslash before every brace
RECURSIVE EscapeBraces(_)
EscapeBraces(placeholder) ==
    IF placeholder = <<>> THEN <<>>
    ELSE (IF Head(placeholder) \in {"{", "}"}
          THEN <<"\\", Head(placeholder)>>
          ELSE <<Head(placeholder)>>) \o EscapeBraces(Tail(placeholder))

\* new RegExp(source, 'g'): the atoms of the pattern.  An escaped character
\* stands for itself, a dot for any character but a line terminator, a
\* letter for itself.
RECURSIVE RegExpAtoms(_)
RegExpAtoms(source) ==
    IF source = <<>> THEN <<>>
    ELSE IF Head(source) = "\\" /\ Len(source) >= 2
    THEN <<[any |-> FALSE, ch |-> source[2]]>>
         \o RegExpAtoms(SubSeq(source, 3, Len(source)))
    ELSE IF Head(source) = "."
    THEN <<[any |-> TRUE, ch |-> "."]>> \o RegExpAtoms(Tail(source))
    ELSE <<[any |-> FALSE, ch |-> Head(source)]>> \o RegExpAtoms(Tail(source))

\* A faulty variant of the match of one character: a letter of the key
\* matches any letter, as a character class in place of the letter would.
AtomMatches_AnyLetter(atom, c) ==
    IF atom.any THEN c # NL
    ELSE \/ c = atom.ch
         \/ atom.ch \in {"A", "B"} /\ c \in {"A", "B"}

AtomMatches(atom, c) ==
    IF atom.any THEN c # NL ELSE c = atom.ch

MatchesAt(text, atoms, i) ==
    /\ i + Len(atoms) - 1 <= Len(text)
    /\ \A j \in 1..Len(atoms) : AtomMatches(atoms[j], text[i + j - 1])

\* The replacement string of String.replace: "$$" inserts a dollar sign and
\* "$&" the matched text; every other character inserts itself.
RECURSIVE GetSubstitution(_, _)
GetSubstitution(value, matched) ==
    IF value = <<>> THEN <<>>
    ELSE IF Len(value) >= 2 /\ value[1] = "$" /\ value[2] = "$"
    THEN <<"$">> \o GetSubstitution(SubSeq(value, 3, Len(value)), matched)
    ELSE IF Len(value) >= 2 /\ value[1] = "$" /\ value[2] = "&"
    THEN matched \o GetSubstitution(SubSeq(value, 3, Len(value)), matched)
    ELSE <<Head(value)>> \o GetSubstitution(Tail(value), matched)

\* text.replace(pattern, value) for a global pattern, from position from on:
\* the matches are taken left to right without overlap, in the text as it was
\* before the call
RECURSIVE RegExpReplace(_, _, _, _)
RegExpReplace(text, atoms, value, from) ==
    LET at == {i \in from..Len(text) : MatchesAt(text, atoms, i)}
    IN IF at = {} THEN SubSeq(text, from, Len(text))
       ELSE LET first == Least(at)
                matched == SubSeq(text, first, first + Len(atoms) - 1)
            IN SubSeq(text, from, first - 1)
               \o GetSubstitution(value, matched)
               \o RegExpReplace(text, atoms, value, first + Len(atoms))

\* applyTemplateReplacements(template, replacements), character by character
RECURSIVE applyTemplateReplacementsToString(_, _)
applyTemplateReplacementsToString(template, replacements) ==
    IF replacements = <<>> THEN template
    ELSE applyTemplateReplacementsToString(
            RegExpReplace(template,
                          RegExpAtoms(EscapeBraces(Head(replacements)[1])),
                          Head(replacements)[2], 1),
            Tail(replacements))

AStart ==
    /\ atemplate \in Templates
    /\ areplacements \in TokenMaps
    /\ aresults = <<>>

\* result = applyTemplateReplacements(atemplate, areplacements)
ApplyTemplate ==
    /\ aresults = <<>>
    /\ aresults' = <<applyTemplateReplacementsToString(atemplate, areplacements)>>
    /\ UNCHANGED <<atemplate, areplacements>>

\* the caller passes the string it got back with the same replacements
ApplyAgain ==
    /\ Len(aresults) = 1
    /\ aresults' = Append(aresults,
                          applyTemplateReplacementsToString(aresults[1], areplacements))
    /\ UNCHANGED <<atemplate, areplacements>>

ANext == (ApplyTemplate \/ ApplyAgain) /\ UNCHANGED <<ovars, xvars, svars, pvars, kvars>>

AInit ==
    /\ AStart
    /\ tool = "applyTemplateReplacements"
    /\ NoInvocation
    /\ NoExtraction
    /\ NoResolution
    /\ NoPricing
    /\ NoClassification

SpecApply == AInit /\ [][ANext]_vars


\* key occurs in text at position i, character for character
OccursAt(text, key, i) ==
    /\ i + Len(key) - 1 <= Len(text)
    /\ \A j \in 1..Len(key) : text[i + j - 1] = key[j]

Occurs(text, key) == \E i \in 1..Len(text) : OccursAt(text, key, i)

\* the template from position from on, with every occurrence of a key of the
\* map replaced by the characters of its value and every other character kept
RECURSIVE Substituted(_, _, _)
Substituted(template, replacements, from) ==
    IF from > Len(template) THEN <<>>
    ELSE LET here == {e \in 1..Len(replacements) :
                        OccursAt(template, replacements[e][1], from)}
         IN IF here = {}
            THEN <<template[from]>> \o Substituted(template, replacements, from + 1)
            ELSE LET entry == replacements[Least(here)]
                 IN entry[2] \o Substituted(template, replacements,
                                            from + Len(entry[1]))

\* C12: applyTemplateReplacements returns the template with every occurrence
\* of every key of the map replaced by exactly the characters of its value,
\* whatever they are, and all other text unchanged; keys that do not occur
\* have no effect and a template without keys is returned unchanged.
C12_EveryKeyReplacedByItsValue ==
    Len(aresults) >= 1
    => aresults[1] = Substituted(atemplate, areplacements, 1)


\* text holds a piece that the key, read as the code reads it, would match:
\* a brace or a letter of the key stands for itself, a dot for any character
\* of a line
PatternOccurs(text, key) ==
    \E i \in 1..Len(text) :
        /\ i + Len(key) - 1 <= Len(text)
        /\ \A j \in 1..Len(key) :
                \/ text[i + j - 1] = key[j]
                \/ key[j] = "." /\ text[i + j - 1] # NL

\* no key of the map is text that another key of the map matches
KeysApart(replacements) ==
    \A i, j \in 1..Len(replacements) :
        i # j => ~PatternOccurs(replacements[i][1], replacements[j][1])

\* the entries of the map in every order
Reorderings(replacements) ==
    LET n == Len(replacements)
    IN { [i \in 1..n |-> replacements[p[i]]] :
            p \in {q \in [1..n -> 1..n] : \A i, j \in 1..n : i # j => q[i] # q[j]} }

\* C13: for every template and every token map in which no key's text is
\* matched by another key, applyTemplateReplacements gives the same result
\* for every order in which the entries of the map are applied.
C13_OrderOfEntriesIrrelevant ==
    (Len(aresults) >= 1 /\ KeysApart(areplacements))
    => \A reordered \in Reorderings(areplacements) :
            applyTemplateReplacementsToString(atemplate, reordered) = aresults[1]


\* no value of the map holds a key of the map
NoValueHoldsKey(replacements) ==
    \A i, j \in 1..Len(replacements) :
        ~Occurs(replacements[i][2], replacements[j][1])

\* text holds nothing that a key of the map matches
NoKeyLeft(text, replacements) ==
    \A e \in 1..Len(replacements) : ~PatternOccurs(text, replacements[e][1])

SecondApplicationChanges ==
    /\ Len(aresults) = 2
    /\ ~NoValueHoldsKey(areplacements)
    /\ aresults[2] # aresults[1]


\* text from position from on, with the occurrences of the characters of key,
\* taken left to right, replaced as String.replace inserts value
RECURSIVE LiteralReplace(_, _, _, _)
LiteralReplace(text, key, value, from) ==
    LET at == {i \in from..Len(text) : OccursAt(text, key, i)}
    IN IF at = {} THEN SubSeq(text, from, Len(text))
       ELSE LET first == Least(at)
            IN SubSeq(text, from, first - 1)
               \o GetSubstitution(value, key)
               \o LiteralReplace(text, key, value, first + Len(key))

\* the entries applied in their order, each key taken as literal text
RECURSIVE LiteralApply(_, _)
LiteralApply(template, replacements) ==
    IF replacements = <<>> THEN template
    ELSE LiteralApply(LiteralReplace(template, Head(replacements)[1],
                                     Head(replacements)[2], 1),
                      Tail(replacements))

\* C15: applyTemplateReplacements matches each key as literal text: only
\* exact occurrences of the characters of a key are replaced, no character of
\* a key is read as regular-expression syntax.
C15_KeysAreLiteralText ==
    Len(aresults) >= 1 => aresults[1] = LiteralApply(atemplate, areplacements)


(***************************************************************************)
(* SpecSnippets: resolveSnippets called on its own with a library built    *)
(* from a base section (or none) and a frameworks section (or none).       *)
(***************************************************************************)
\* a provider whose template names all three packages
SupabaseSnippets ==
    << << <<"serverInit", "Template">>,
          <<"import { FlowgladServer } from '", "{SERVER_PKG}", "'">> >>,
       << <<"provider", "Template">>,
          <<"import { FlowgladProvider } from '", "{PROVIDER_PKG}", "'",
            "import { useBilling } from '", "{BILLING_HOOK_PKG}", "'">> >>,
       << <<"Template", "Notes", "Template">>, <<"{SERVER_PKG}", " and ", "{SERVER_PKG}">> >>,
       << <<"layoutProvider">>, <<"<FlowgladProvider>">> >> >>

\* a framework section without a server package
FrameworkWithoutServerPkg ==
    << <<"providerPkg", <<"@flowglad/react">> >>,
       <<"billingHookPkg", <<"@flowglad/react">> >>,
       <<"routeHandlerTemplate", <<"import { requestHandler } from '", "{SERVER_PKG}", "'">> >> >>

\* a framework section whose package names are placeholders themselves
FrameworkOfPlaceholders ==
    << <<"serverPkg", <<"{BILLING_HOOK_PKG}">> >>,
       <<"providerPkg", <<"{SERVER_PKG}">> >>,
       <<"billingHookPkg", <<"@flowglad/", "{PROVIDER_PKG}">> >>,
       <<"routeHandlerTemplate", <<"import { requestHandler } from '", "{SERVER_PKG}", "'">> >> >>

\* the value of the key "base": a handle names it ("absent": no such key)
BaseSection(handle) ==
    CASE handle = "null" -> Null
      [] handle = "empty" -> <<>>
      [] handle = "two" -> << <<"clerk", ClerkSnippets>>, <<"custom", CustomSnippets>> >>
      [] handle = "three" -> << <<"clerk", ClerkSnippets>>, <<"custom", CustomSnippets>>,
                                <<"supabase", SupabaseSnippets>> >>
      [] OTHER -> Undefined

BaseHandles == {"absent", "null", "empty", "two", "three"}

\* the value of the key "frameworks": a handle names it ("absent": no such
\* key); a library may hold sections for other frameworks than the two keys
FrameworksSection(handle) ==
    CASE handle = "empty" -> <<>>
      [] handle = "both" -> LibraryFrameworks
      [] handle = "nextjs, remix" ->
            << <<"nextjs", NextjsFramework>>, <<"remix", ReactFramework>> >>
      [] handle = "react, remix" ->
            << <<"react", ReactFramework>>, <<"remix", NextjsFramework>> >>
      [] handle = "nextjs without server, react" ->
            << <<"nextjs", FrameworkWithoutServerPkg>>, <<"react", ReactFramework>> >>
      [] handle = "nextjs, react of placeholders" ->
            << <<"nextjs", NextjsFramework>>, <<"react", FrameworkOfPlaceholders>> >>
      [] OTHER -> Undefined

FrameworksHandles ==
    {"absent", "empty", "both", "nextjs, remix", "react, remix",
     "nextjs without server, react", "nextjs, react of placeholders"}

\* the object JSON.parse returns for a library with these two sections
LibraryOf(baseHandle, frameworksHandle) ==
    (IF baseHandle = "absent" THEN <<>>
     ELSE << <<"base", BaseSection(baseHandle)>> >>)
    \o (IF frameworksHandle = "absent" THEN <<>>
        ELSE << <<"frameworks", FrameworksSection(frameworksHandle)>> >>)
    \o << <<"filePaths", LibraryFilePaths>> >>

FrameworkKeys == {"nextjs", "react"}

SStart ==
    /\ spc = "build"
    /\ \E b \in BaseHandles, f \in FrameworksHandles : slibrary = LibraryOf(b, f)
    /\ sframeworkKey \in FrameworkKeys
    /\ sresolved = Undefined

\* sresolved = resolveSnippets(slibrary, sframeworkKey)
CallResolve ==
    /\ spc = "build"
    /\ sresolved' = resolveSnippets(slibrary, sframeworkKey)
    /\ spc' = "called"
    /\ UNCHANGED <<slibrary, sframeworkKey>>

SNext == CallResolve /\ UNCHANGED <<ovars, xvars, avars, pvars, kvars>>

SInit ==
    /\ SStart
    /\ tool = "resolveSnippets"
    /\ NoInvocation
    /\ NoExtraction
    /\ NoApplication
    /\ NoPricing
    /\ NoClassification

SpecSnippets == SInit /\ [][SNext]_vars


HasKey(obj, key) == \E i \in 1..Len(obj) : obj[i][1] = key

\* the library has no base section
NoBaseSection(library) ==
    ~HasKey(library, "base") \/ Get(library, "base") = Null

\* the library has no section for the framework key
NoFrameworkSection(library, frameworkKey) ==
    \/ ~HasKey(library, "frameworks")
    \/ ~HasKey(Get(library, "frameworks"), frameworkKey)

\* C16: for every snippet library, resolveSnippets returns null, neither
\* throwing nor returning a partial mapping, whenever the library has no base
\* section or no section for the requested framework key.
C16_MissingSectionGivesNull ==
    (/\ spc = "called"
     /\ NoBaseSection(slibrary) \/ NoFrameworkSection(slibrary, sframeworkKey))
    => sresolved = Null

\* the three framework placeholders
FrameworkPlaceholders == {"{SERVER_PKG}", "{PROVIDER_PKG}", "{BILLING_HOOK_PKG}"}

HoldsPlaceholder(text) == \E i \in 1..Len(text) : text[i] \in FrameworkPlaceholders

WellFormed(library, frameworkKey) ==
    ~NoBaseSection(library) /\ ~NoFrameworkSection(library, frameworkKey)

\* every string of the resolved mapping that comes from a key ending in
\* 'Template' holds no framework placeholder
FullyResolved(library, resolved) ==
    LET base == Get(library, "base")
    IN \A p \in 1..Len(base) : \A e \in 1..Len(base[p][2]) :
            LET key == base[p][2][e][1]
            IN EndsWithTemplate(key)
               => ~HoldsPlaceholder(Get(Get(resolved, base[p][1]), StripTemplate(key)))

\* C17 as stated: for every library with a base section and a section for
\* the framework key, every string resolveSnippets produces from a key ending
\* in 'Template' holds none of {SERVER_PKG}, {PROVIDER_PKG}, {BILLING_HOOK_PKG}.
C17_NoResidualPlaceholder ==
    (spc = "called" /\ WellFormed(slibrary, sframeworkKey))
    => FullyResolved(slibrary, sresolved)

\* the package names of the section, as far as it gives them, hold no
\* framework placeholder
PlainPackageNames(framework) ==
    \A name \in {"serverPkg", "providerPkg", "billingHookPkg"} :
        ~HoldsPlaceholder(AsText(Get(framework, name)))

\* C17, amended: for every library with a base section and a section for the
\* framework key whose package names hold no framework placeholder, every
\* string resolveSnippets produces from a key ending in 'Template' holds none
\* of the three placeholders.
C17_NoResidualPlaceholderForPlainPackages ==
    (/\ spc = "called"
     /\ WellFormed(slibrary, sframeworkKey)
     /\ PlainPackageNames(Get(Get(slibrary, "frameworks"), sframeworkKey)))
    => FullyResolved(slibrary, sresolved)

\* a library with templates for all three packages, resolved for a section
\* that lacks one of the package names
C17_Witness ==
    /\ spc = "called"
    /\ WellFormed(slibrary, sframeworkKey)
    /\ PlainPackageNames(Get(Get(slibrary, "frameworks"), sframeworkKey))
    /\ HasKey(Get(slibrary, "base"), "supabase")
    /\ Get(Get(Get(slibrary, "frameworks"), sframeworkKey), "serverPkg") = Undefined
    /\ Get(Get(sresolved, "supabase"), <<"provider">>)
         = <<"import { FlowgladProvider } from '", "@flowglad/react", "'",
             "import { useBilling } from '", "@flowglad/react", "'">>


(***************************************************************************)
(* SpecPricing: analyzePricingModel called on a pricing configuration and  *)
(* constructPricingModelInstructions on its result, as lines 234 and       *)
(* 301-305 of getSetupInstructions do.                                     *)
(***************************************************************************)
MaxProducts == 2
MaxPrices == 1
MaxMeters == 1
MaxFeatures == 1

SeqsUpTo(S, n) == UNION {[1..k -> S] : k \in 0..n}

\* price.trialPeriodDays: not set, null, 0 days, 14 days
TrialLengths == {Undefined, Null, <<"0">>, <<"14">>}

PricingProducts ==
    { [product |-> [name |-> <<"Pro">>, slug |-> <<"pro">>], prices |-> prices] :
        prices \in SeqsUpTo({[trialPeriodDays |-> t] : t \in TrialLengths}, MaxPrices) }

PricingFeatures ==
    { [type |-> type, slug |-> <<"ai-copilot">>] :
        type \in {FeatureTypeToggle, "usage_credit_grant"} }

PricingMeters == { [slug |-> <<"api_calls">>, name |-> <<"API Calls">>] }

PricingModels ==
    { [products |-> products, features |-> features, usageMeters |-> usageMeters] :
        products \in SeqsUpTo(PricingProducts, MaxProducts),
        features \in SeqsUpTo(PricingFeatures, MaxFeatures),
        usageMeters \in SeqsUpTo(PricingMeters, MaxMeters) }

PStart ==
    /\ ppc = "build"
    /\ pdata \in PricingModels
    /\ panalysis = NullObject
    /\ pinstructions = Undefined

\* pricingModelAnalysis = analyzePricingModel(pricingModelData)
Analyze ==
    /\ ppc = "build"
    /\ panalysis' = analyzePricingModel(pdata)
    /\ ppc' = "analyzed"
    /\ UNCHANGED <<pdata, pinstructions>>

\* constructPricingModelInstructions(pricingModelData, pricingModelAnalysis)
Compose ==
    /\ ppc = "analyzed"
    /\ pinstructions' = constructPricingModelInstructions(pdata, panalysis)
    /\ ppc' = "composed"
    /\ UNCHANGED <<pdata, panalysis>>

PNext == (Analyze \/ Compose) /\ UNCHANGED <<ovars, xvars, avars, svars, kvars>>

PInit ==
    /\ PStart
    /\ tool = "analyzePricingModel"
    /\ NoInvocation
    /\ NoExtraction
    /\ NoApplication
    /\ NoResolution
    /\ NoClassification

SpecPricing == PInit /\ [][PNext]_vars


\* the trial lengths that the prices of the configuration carry
TrialLengthsOf(data) ==
    UNION { { data.products[p].prices[q].trialPeriodDays :
                q \in 1..Len(data.products[p].prices) } :
            p \in 1..Len(data.products) }

\* C18: analyzePricingModel returns hasTrials = true iff some price of some
\* product carries a trial length that is neither null nor missing (a length
\* of 0 counts), hasUsageMeters = true iff there is at least one usage meter,
\* and hasToggleFeatures = true iff some feature has type toggle; each of the
\* three depends on nothing else.
C18_AnalysisFlags ==
    ppc # "build"
    => /\ panalysis.hasTrials = (TrialLengthsOf(pdata) \ {Undefined, Null} # {})
       /\ panalysis.hasUsageMeters = (pdata.usageMeters # <<>>)
       /\ panalysis.hasToggleFeatures
            = ("toggle" \in {pdata.features[f].type : f \in 1..Len(pdata.features)})

\* a configuration whose only trial length is 0 days, with a meter and
\* without a toggle feature
C18_Witness ==
    /\ ppc # "build"
    /\ TrialLengthsOf(pdata) \ {Undefined, Null} = {<<"0">>}
    /\ pdata.usageMeters # <<>>
    /\ panalysis = [hasTrials |-> TRUE, hasUsageMeters |-> TRUE,
                    hasToggleFeatures |-> FALSE]

\* the blocks an analysis selects, in the order trials, usage, toggle
SelectedBlocks(analysis) ==
    SelectSeq(<<TrialsBlock, UsageBlock, ToggleBlock>>,
              LAMBDA block :
                \/ block = TrialsBlock /\ analysis.hasTrials
                \/ block = UsageBlock /\ analysis.hasUsageMeters
                \/ block = ToggleBlock /\ analysis.hasToggleFeatures)

\* C19: constructPricingModelInstructions returns the blocks whose boolean is
\* true, and only those, in the order trials, usage metering, toggle features
\* (a blank line between two blocks), and the empty string when all three are
\* false; for a configuration with a toggle feature, no usage meter and no
\* trial price the instructions are the toggle block alone.
C19_BlocksInFixedOrder ==
    ppc = "composed"
    => /\ pinstructions = Join(SelectedBlocks(panalysis), BlankLine)
       /\ (~panalysis.hasTrials /\ ~panalysis.hasUsageMeters
           /\ ~panalysis.hasToggleFeatures) => pinstructions = <<>>
       /\ (/\ "toggle" \in {pdata.features[f].type : f \in 1..Len(pdata.features)}
           /\ pdata.usageMeters = <<>>
           /\ TrialLengthsOf(pdata) \subseteq {Undefined, Null})
          => pinstructions = ToggleBlock

\* a configuration with a trial and a meter: two blocks, trials first
C19_Witness ==
    /\ ppc = "composed"
    /\ panalysis = [hasTrials |-> TRUE, hasUsageMeters |-> TRUE,
                    hasToggleFeatures |-> FALSE]
    /\ pinstructions = TrialsBlock \o BlankLine \o UsageBlock


CanonicalFrameworks == {<<"Next.js">>, <<"React">>}
CanonicalAuthLibraries == {<<"Clerk">>, <<"Supabase">>, <<"NextAuth">>}
CustomerModels == {<<"B2B">>, <<"B2C">>}

\* the answer to the authentication question that the document of this run
\* gives under its authentication heading, Undefined when it gives none
AuthAnswer ==
    IF ~Truthy(xdoc) \/ SectionPromptMatch(xdoc, H3, QAuth) = 0 THEN Undefined
    ELSE Capture(xdoc, SectionPromptMatch(xdoc, H3, QAuth))

HasAuthKeyword(answer) ==
    \E kw \in {"clerk", "supabase", "nextauth", "next-auth"} : IncludesLower(answer, kw)

\* C20 as stated: each categorical fact returned by extractCodebaseInfo is a
\* canonical value or a fixed fallback value; authLibrary is a canonical name
\* when the matched answer holds the keyword, whatever its case, and otherwise
\* a fixed value that does not depend on the text of the document.
C20_CategoricalFactsAreCanonical ==
    xcalls >= 1
    => /\ xinfo.framework \in CanonicalFrameworks
       /\ xinfo.customerModel \in CustomerModels
       /\ xinfo.authLibrary \in CanonicalAuthLibraries \cup {<<"unknown">>}
       /\ (AuthAnswer # Undefined /\ HasAuthKeyword(AuthAnswer))
            => xinfo.authLibrary \in CanonicalAuthLibraries

\* C20, amended: framework is Next.js or React and customerModel is B2B or
\* B2C for every document; authLibrary is the canonical name of the first of
\* the keywords clerk, supabase, nextauth / next-auth that the matched answer
\* holds, whatever its case; it is the matched answer itself, trimmed, when
\* the answer holds no keyword, and the fixed value 'unknown' when the
\* document gives no answer.
C20_AuthLibraryCanonicalOrTheAnswer ==
    xcalls >= 1
    => /\ xinfo.framework \in CanonicalFrameworks
       /\ xinfo.customerModel \in CustomerModels
       /\ xinfo.authLibrary =
            IF AuthAnswer = Undefined THEN <<"unknown">>
            ELSE IF IncludesLower(AuthAnswer, "clerk") THEN <<"Clerk">>
            ELSE IF IncludesLower(AuthAnswer, "supabase") THEN <<"Supabase">>
            ELSE IF HasAuthKeyword(AuthAnswer) THEN <<"NextAuth">>
            ELSE Trim(AuthAnswer)

\* an answer without a keyword: the fact is the answer, without the blanks
\* around it
C20_Witness ==
    /\ xcalls >= 1
    /\ AuthAnswer = <<SP, "Auth0", SP>>
    /\ xinfo.authLibrary = <<"Auth0">>

\* an answer that holds two keywords in capitals and in the other order
KeywordInCapitals ==
    /\ xcalls >= 1
    /\ AuthAnswer = <<"Supabase", SP, "and", SP, "CLERK">>
    /\ xinfo.authLibrary = <<"Clerk">>


(***************************************************************************)
(* C21: every fact is the answer at the first match or the default.        *)
(***************************************************************************)
\* the role of each question prompt whose answer is a file path
PathPrompts ==
    [apiRoutePath |-> QApiRoute, libPath |-> QLib,
     componentsPath |-> QComponents, pricingComponentPath |-> QPricing,
     navbarComponentPath |-> QNavbar, dashboardComponentPath |-> QDashboard,
     envFile |-> QEnvFile, envVarAccess |-> QEnvVar, packageFile |-> QPackage]

\* the answered occurrences of a prompt in the document of this run, from a
\* position on: the prompt, and "- " with an answer on the next line
AnsweredAt(prompt, from) ==
    {i \in from..Len(xdoc) : PromptMatchesAt(xdoc, prompt, i)}

\* the answer given at the first answered occurrence, trimmed
FirstAnswer(prompt, from) == Trim(Capture(xdoc, Least(AnsweredAt(prompt, from))))

\* the position after the first occurrence of a section heading, 0 when the
\* heading does not occur
AfterHeading(heading) ==
    LET hs == {i \in 1..Len(xdoc) : HeadingAt(xdoc, heading, i)}
    IN IF hs = {} THEN 0 ELSE Least(hs) + Len(heading)

\* the answered occurrences of a prompt after the first heading of its section
AnsweredInSection(heading, prompt) ==
    IF AfterHeading(heading) = 0 THEN {}
    ELSE AnsweredAt(prompt, AfterHeading(heading))

\* the document gives no answer to any prompt, and holds no marker and no
\* pair of section headings the extractor looks for
MatchesNothing ==
    /\ \A role \in DOMAIN PathPrompts : AnsweredAt(PathPrompts[role], 1) = {}
    /\ AnsweredAt(QLanguage, 1) = {}
    /\ AnsweredInSection(H1, QFramework) = {}
    /\ AnsweredInSection(H3, QAuth) = {}
    /\ AnsweredInSection(HCustomerId, QCustomerId) = {}
    /\ MarkerPositions(B2BMarker) = {} /\ MarkerPositions(B2CMarker) = {}
    /\ SpanMatch(xdoc, H2, H3dot) = Undefined
    /\ SpanMatch(xdoc, H4, H5dot) = Undefined

\* C21: for every document, each fact of the record returned is the answer
\* at the first match of the fact's question prompt (trimmed; for the
\* framework, the canonical name of the keyword in that answer) when the
\* document has a match, and the default (built-in or caller override)
\* otherwise; a role without a prompt keeps its default; a document that
\* matches no prompt and no marker yields the defaults.
C21_FirstMatchOrDefault ==
    (xcalls >= 1 /\ Truthy(xdoc))
    => LET d == Defaults(xdefaultPaths)
       IN /\ \A role \in DOMAIN PathPrompts :
                xinfo.filePaths[role] =
                    IF AnsweredAt(PathPrompts[role], 1) = {}
                    THEN d.filePaths[role]
                    ELSE FirstAnswer(PathPrompts[role], 1)
          /\ \A role \in Roles \ (DOMAIN PathPrompts \cup {"serverFile"}) :
                xinfo.filePaths[role] = d.filePaths[role]
          /\ AnsweredAt(QLib, 1) = {}
                => xinfo.filePaths.serverFile = d.filePaths.serverFile
          /\ xinfo.language =
                IF AnsweredAt(QLanguage, 1) = {} THEN d.language
                ELSE FirstAnswer(QLanguage, 1)
          /\ xinfo.customerIdSource =
                IF AnsweredInSection(HCustomerId, QCustomerId) = {}
                THEN d.customerIdSource
                ELSE FirstAnswer(QCustomerId, AfterHeading(HCustomerId))
          /\ xinfo.framework =
                IF AnsweredInSection(H1, QFramework) = {} THEN d.framework
                ELSE LET answer == FirstAnswer(QFramework, AfterHeading(H1))
                     IN IF IncludesLower(answer, "next.js")
                           \/ IncludesLower(answer, "nextjs") THEN <<"Next.js">>
                        ELSE IF IncludesLower(answer, "react") THEN <<"React">>
                        ELSE d.framework
          /\ AnsweredInSection(H3, QAuth) = {}
                => xinfo.authLibrary = d.authLibrary
          /\ MarkerPositions(B2BMarker) = {}
                => xinfo.customerModel = d.customerModel
          /\ SpanMatch(xdoc, H2, H3dot) = Undefined
                => xinfo.stackDetails = d.stackDetails
          /\ SpanMatch(xdoc, H4, H5dot) = Undefined
                => xinfo.additionalDetails = d.additionalDetails
          /\ MatchesNothing => xinfo = d

\* a document with two answers to one prompt and an override for a role the
\* document does not answer: the first answer and the override are returned
C21_Witness ==
    /\ xcalls >= 1
    /\ Truthy(xdoc)
    /\ xdoc = Answered(QLanguage, <<"JavaScript">>)
                \o Answered(QLanguage, <<"TypeScript">>)
    /\ xinfo.language = <<"JavaScript">>
    /\ xinfo.filePaths.envFile = <<".env">>
    /\ AnsweredAt(QEnvFile, 1) = {}


(***************************************************************************)
(* C22: the server file follows the utilities path of the document.        *)
(***************************************************************************)
\* the extension of the server file for a language
ExtensionOf(language) == IF language = <<"TypeScript">> THEN <<"ts">> ELSE <<"js">>

\* C22: whenever the document answers the prompt for the shared-utilities
\* path, serverFile is '<libPath>/flowglad.<ext>' for the libPath returned,
\* with ext 'ts' when the language returned (extracted from the same
\* document, or the default) is TypeScript and 'js' otherwise; when the
\* document does not answer that prompt, serverFile is its default, also when
\* the caller overrides libPath.
C22_ServerFileFollowsLibPath ==
    (xcalls >= 1 /\ Truthy(xdoc))
    => IF AnsweredAt(QLib, 1) # {}
       THEN xinfo.filePaths.serverFile =
                xinfo.filePaths.libPath \o <<"/flowglad.">>
                \o ExtensionOf(xinfo.language)
       ELSE xinfo.filePaths.serverFile =
                Defaults(xdefaultPaths).filePaths.serverFile

\* the document gives JavaScript as the language, after the utilities path
C22_Witness ==
    /\ xcalls >= 1
    /\ xdoc = Answered(QLib, <<"lib">>) \o Answered(QLanguage, <<"JavaScript">>)
    /\ xinfo.filePaths.serverFile = <<"lib", "/flowglad.", "js">>
    /\ xinfo.filePaths.libPath = <<"lib">>


(***************************************************************************)
(* C23: what resolveSnippets maps each entry of base to.                   *)
(***************************************************************************)
\* the key with the suffix 'Template' cut off
WithoutSuffix(key) == SubSeq(key, 1, Len(key) - 1)

\* the text with every framework placeholder replaced by the package name
\* the framework section gives for it
RECURSIVE WithPackages(_, _)
WithPackages(text, framework) ==
    IF text = <<>> THEN <<>>
    ELSE (CASE Head(text) = "{SERVER_PKG}" -> AsText(Get(framework, "serverPkg"))
            [] Head(text) = "{PROVIDER_PKG}" -> AsText(Get(framework, "providerPkg"))
            [] Head(text) = "{BILLING_HOOK_PKG}" -> AsText(Get(framework, "billingHookPkg"))
            [] OTHER -> <<Head(text)>>)
         \o WithPackages(Tail(text), framework)

\* the entries of one auth provider are mapped as C23 says
EntriesMapped(entries, framework, resolvedEntries) ==
    \A e \in 1..Len(entries) :
        LET key == entries[e][1]
            value == entries[e][2]
        IN IF EndsWithTemplate(key)
           THEN Get(resolvedEntries, WithoutSuffix(key)) = WithPackages(value, framework)
           ELSE Get(resolvedEntries, key) = value

\* C23: for every library with a base section and a section for the
\* framework key, resolveSnippets returns one entry per auth provider of
\* base, under the same names; in it each key ending in 'Template' appears
\* with that suffix stripped, its value with the three framework placeholders
\* replaced by the section's serverPkg, providerPkg and billingHookPkg, and
\* each other key appears under its own name with its value unchanged.
C23_TemplatesResolvedOthersPassed ==
    (spc = "called" /\ WellFormed(slibrary, sframeworkKey))
    => LET base == Get(slibrary, "base")
           framework == Get(Get(slibrary, "frameworks"), sframeworkKey)
       IN /\ Len(sresolved) = Len(base)
          /\ \A p \in 1..Len(base) :
                /\ sresolved[p][1] = base[p][1]
                /\ EntriesMapped(base[p][2], framework, sresolved[p][2])


(***************************************************************************)
(* SpecClassify: getFrameworkKey, getAuthKey and getLocationKey applied to *)
(* a free text of up to MaxWords words.                                    *)
(***************************************************************************)
MaxWords == 2

\* words of framework, auth and structure descriptions, in both cases, and
\* words that name nothing the classifiers know
Words ==
    {"Next.js", "NEXT.JS", "nextjs", "React", "REACT", "Vue",
     "Supabase", "Clerk", "CLERK", "NextAuth.js", "next-auth", "Auth0",
     "src/app", "src/app/api", "src\\app", "src/pages", "src\\pages",
     "App Router", "app/", "Pages Router", "pages/", "monorepo"}

Classifiers == {"framework", "auth", "location"}

\* the classifier applied to the text
Classify(classifier, text) ==
    CASE classifier = "framework" -> getFrameworkKey(text)
      [] classifier = "auth" -> getAuthKey(text)
      [] classifier = "location" -> getLocationKey(text)

KStart ==
    /\ ktext \in SeqsUpTo(Words, MaxWords)
    /\ kkeys = <<>>

\* kkeys[classifier] = <classifier>(ktext)
CallClassifier(classifier) ==
    /\ classifier \notin DOMAIN kkeys
    /\ kkeys' = [c \in DOMAIN kkeys \cup {classifier} |->
                    IF c = classifier THEN Classify(classifier, ktext) ELSE kkeys[c]]
    /\ UNCHANGED ktext

CallFrameworkKey == CallClassifier("framework")

CallAuthKey == CallClassifier("auth")

CallLocationKey == CallClassifier("location")

KNext ==
    (CallFrameworkKey \/ CallAuthKey \/ CallLocationKey)
    /\ UNCHANGED <<ovars, xvars, avars, svars, pvars>>

KInit ==
    /\ KStart
    /\ tool = "classifiers"
    /\ NoInvocation
    /\ NoExtraction
    /\ NoApplication
    /\ NoResolution
    /\ NoPricing

SpecClassify == KInit /\ [][KNext]_vars

\* the tests of each classifier in the order the claim gives them: the key
\* returned and the keywords looked for; and the default key
Precedence(classifier) ==
    CASE classifier = "framework" ->
            << <<"nextjs", {"nextjs", "next.js"}>>, <<"react", {"react"}>> >>
      [] classifier = "auth" ->
            << <<"supabase", {"supabase"}>>, <<"clerk", {"clerk"}>>,
               <<"nextauth", {"nextauth", "next-auth"}>> >>
      [] classifier = "location" ->
            << <<"src/app", {"src/app", "src\\app"}>>,
               <<"src/pages", {"src/pages", "src\\pages"}>>,
               <<"app", {"app router", "app/"}>>,
               <<"pages", {"pages router", "pages/"}>> >>

DefaultKey(classifier) ==
    CASE classifier = "framework" -> "nextjs"
      [] classifier = "auth" -> "custom"
      [] classifier = "location" -> "app"

ClosedSet(classifier) ==
    CASE classifier = "framework" -> {"nextjs", "react"}
      [] classifier = "auth" -> {"supabase", "clerk", "nextauth", "custom"}
      [] classifier = "location" -> {"src/app", "src/pages", "app", "pages"}

\* the keywords that occur in the lower-cased text
KeywordsIn(text) == UNION {KeywordsOf(text[i]) : i \in 1..Len(text)}

\* the key of the first test one of whose keywords occurs, else the default
KeyByPrecedence(classifier, text) ==
    LET tests == Precedence(classifier)
        hits == {t \in 1..Len(tests) : tests[t][2] \cap KeywordsIn(text) # {}}
    IN IF hits = {} THEN DefaultKey(classifier) ELSE tests[Least(hits)][1]

\* C24: each classifier returns, for every text, a key of its closed set:
\* the key of the first of its case-insensitive substring tests that
\* succeeds, in the order nextjs, react (getFrameworkKey), supabase, clerk,
\* nextauth (getAuthKey), src/app, src/pages, app, pages (getLocationKey),
\* and otherwise its default, nextjs, custom and app.
C24_ClassifiersByPrecedence ==
    \A classifier \in DOMAIN kkeys :
        /\ kkeys[classifier] \in ClosedSet(classifier)
        /\ kkeys[classifier] = KeyByPrecedence(classifier, ktext)

\* a text that names two auth providers, one of them in capitals, and names
\* no framework and no layout
C24_Witness ==
    /\ ktext = <<"CLERK", "Supabase">>
    /\ DOMAIN kkeys = Classifiers
    /\ kkeys["auth"] = "supabase"
    /\ kkeys["framework"] = "nextjs"
    /\ kkeys["location"] = "app"


(***************************************************************************)
(* C25: call argument, then extracted value, then hard-coded default.      *)
(***************************************************************************)
\* generation has started: the final values have been computed
GenerationStarted == finalProjectStructure # Undefined

\* the first of the three that is supplied (a non-empty value)
ByPrecedence(argument, extracted, default) ==
    IF Truthy(argument) THEN argument
    ELSE IF Truthy(extracted) THEN extracted
    ELSE default

AnalyzeReturned == Happened("analyze:return")

\* the text it returned
AnalyzeText == IF tool = "analyzeCodebase" THEN result ELSE analyzeResult

\* the positions of the entries of fileContents that have a path and a content
ValidPositions ==
    IF fileContents = Undefined \/ fileContents = NotAnArray THEN {}
    ELSE {i \in 1..Len(fileContents) :
            /\ File(fileContents[i]).path \notin {Undefined, <<>>}
            /\ File(fileContents[i]).content # Undefined}

\* the blocks of the entries at the given positions, in input order, with a
\* rule between two blocks
RECURSIVE Rendering(_)
Rendering(positions) ==
    IF positions = {} THEN <<>>
    ELSE LET i == Least(positions)
             f == File(fileContents[i])
         IN <<"## File: ">> \o f.path \o <<"[fence]">> \o f.content \o <<"[fence]">>
            \o (IF positions = {i} THEN <<>>
                ELSE <<"---">> \o Rendering(positions \ {i}))

\* the error payloads and the caught error start with these words
IsErrorText(text) ==
    text # Undefined /\ text # <<>>
    /\ text[1] \in {NotAnArrayError[1], NoValidFilesError[1],
                    "Error analyzing codebase: "}

\* C26: analyzeCodebase raises nothing, called as a tool or from
\* getSetupInstructions; once it has returned, its text is an
\* error payload when fileContents is missing, not an array or without an
\* entry that has both a path and a content; otherwise it is the analysis
\* prompt followed by the count of the valid entries under 'Files Analyzed'
\* and the rendering of exactly the valid entries in input order, each as its
\* path and its content in a fenced block, or, when loading the prompt
\* failed, the error as text.
C26_AnalyzeNeverRaises ==
    /\ tool = "analyzeCodebase" => thrown = Undefined
    /\ Happened("delegate") => thrown = Undefined
    /\ AnalyzeReturned
        => IF ValidPositions = {} THEN AnalyzeText \in {NotAnArrayError, NoValidFilesError}
           ELSE IF Happened("read:fail:prompt")
           THEN AnalyzeText = <<"Error analyzing codebase: ">> \o ReadError
           ELSE AnalyzeText =
                    AnalysisPrompt \o <<"# Codebase Files to Analyze">>
                    \o (IF projectRoot \in {Undefined, <<>>} THEN <<>>
                        ELSE <<"**Project Root:** ">> \o projectRoot)
                    \o <<"**Files Analyzed:** ", ToString(Cardinality(ValidPositions))>>
                    \o Rendering(ValidPositions)
                    \o <<"# Your Task">>
    /\ (AnalyzeReturned /\ fileContents \in {Undefined, NotAnArray})
        => AnalyzeText = NotAnArrayError

\* three entries of which the second alone is valid: one file is rendered
C26_Witness ==
    /\ tool = "analyzeCodebase"
    /\ pc = "done"
    /\ fileContents = <<"NoPath", "A", "NoContent">>
    /\ ~Happened("read:fail:prompt")
    /\ thrown = Undefined
    /\ ~IsErrorText(result)
    /\ \E i \in 1..Len(result) :
            /\ result[i] = "**Files Analyzed:** "
            /\ result[i + 1] = "1"
            /\ SubSeq(result, i + 2, i + 6)
                 = <<"## File: ", "package.json", "[fence]", "{}", "[fence]">>


(***************************************************************************)
(* C27: every placeholder of the generation template has a key.            *)
(***************************************************************************)
\* the placeholder tokens of the generation template (toolSet.ts 32-269)
TemplateVocabulary ==
    {"{AUTH_FILE_PATHS}", "{AUTH_LIBRARY}", "{BILLING_HELPERS_CODE}",
     "{BILLING_HELPERS_PATH}", "{CUSTOMER_ENTITY}", "{CUSTOMER_ID_SOURCE}",
     "{DASHBOARD_COMPONENT_PATH}", "{ENV_FILE}", "{ENV_VAR_ACCESS}",
     "{FEATURE_TOGGLE_EXAMPLES}", "{FEATURE_TOGGLE_SLUGS}",
     "{FLOWGLAD_CLIENT_PACKAGE}", "{FLOWGLAD_ROUTE_CODE}",
     "{FLOWGLAD_ROUTE_PATH}", "{FLOWGLAD_SERVER_CODE}",
     "{FLOWGLAD_SERVER_PATH}", "{FRAMEWORK_ROUTING_INFO}", "{FRAMEWORK}",
     "{FRONTEND_FRAMEWORK}", "{FRONTEND_PROVIDER_SECTION}",
     "{LANGUAGE_EXTENSION}", "{LANGUAGE}", "{MOCK_BILLING_IMPORT_PATH}",
     "{MOCK_BILLING_PATH}", "{NAVBAR_COMPONENT_PATH}",
     "{PACKAGE_DEPENDENCIES_CODE}", "{PACKAGE_FILE}",
     "{PACKAGE_SCRIPTS_CODE}", "{PRICING_COMPONENT_PATH}", "{PRODUCT_NAMES}",
     "{PROVIDER_COMPONENT_PATH}", "{ROOT_LAYOUT_PATH}", "{TYPE_SYSTEM}",
     "{USAGE_EVENTS_CODE}", "{USAGE_EVENTS_ROUTE_PATH}", "{USAGE_EXAMPLES}",
     "{USAGE_METER_DEFINITIONS}", "{USAGE_METER_EXAMPLES}",
     "{USAGE_METER_SLUGS}"}

\* the placeholders that occur in a text
PlaceholdersIn(text) == {text[i] : i \in 1..Len(text)} \cap TemplateVocabulary

\* the token map was built
MapBuilt == templateReplacements \notin {Undefined, TypeError}

\* C27: for every input context, the token map that buildTemplateReplacements
\* returns, in the snippet branch and in the fallback branch, has a key for
\* every placeholder that occurs in the generation template, and the text
\* applyTemplateReplacements makes of the template holds no placeholder of
\* the template's vocabulary.
C27_EveryPlaceholderHasAKey ==
    /\ MapBuilt
        => \A token \in PlaceholdersIn(GenerationTemplate) :
                HasKey(templateReplacements, token)
    /\ customizedInstructions # Undefined
        => PlaceholdersIn(customizedInstructions) = {}


(***************************************************************************)
(* C28: the trailing section of a generation document.                     *)
(***************************************************************************)
\* the positions of a line in the text returned
PositionsOf(line) == {i \in 1..Len(result) : result[i] = line}

\* a generation document was returned
GenerationReturned ==
    tool = "getSetupInstructions" /\ pc = "done" /\ IsGenerationDocument(result)

\* the last position of the generated instructions proper: the last line
\* that comes from the template
LastOfTemplate == CHOOSE i \in PositionsOf("### 12. Final Checklist (What You Must Achieve)") : TRUE

\* the message of the status section: the line after its heading
StatusMessage ==
    LET at == PositionsOf("## Pricing Model Status")
    IN <<result[Least(at) + 1]>>

\* C28: every generation document returned ends with exactly one of two
\* sections, after the generated instructions: '# Pricing Model
\* Configuration' with the YAML block, only when the configuration was found,
\* serialized and analyzed; or '## Pricing Model Status', whose message is
\* the 'not found' text iff no configuration data is held, the 'Failed to
\* generate YAML' text iff data is held and serialization produced nothing,
\* and the 'analysis failed' text only when serialization succeeded and the
\* analysis did not.
C28_ExactlyOneTrailingSection ==
    GenerationReturned
    => LET configuration == PositionsOf("# Pricing Model Configuration")
           status == PositionsOf("## Pricing Model Status")
       IN /\ Cardinality(configuration) + Cardinality(status) = 1
          /\ \A i \in configuration \cup status : i > LastOfTemplate
          /\ configuration # {}
                => /\ pricingModelData # NullObject
                   /\ pricingModelYAML # Null
                   /\ pricingModelAnalysis # NullObject
                   /\ LET i == Least(configuration)
                      IN SubSeq(result, i + 1, i + 2 + Len(pricingModelYAML))
                            = <<"[yaml fence]">> \o pricingModelYAML \o <<"[fence]">>
          /\ status # {}
                => /\ StatusMessage \in
                        {NotFoundStatus, YamlFailedStatus, AnalysisFailedStatus}
                   /\ StatusMessage = NotFoundStatus
                        <=> pricingModelData = NullObject
                   /\ StatusMessage = YamlFailedStatus
                        <=> (pricingModelData # NullObject /\ pricingModelYAML = Null)
                   /\ StatusMessage = AnalysisFailedStatus
                        => (pricingModelYAML # Null /\ pricingModelAnalysis = NullObject)

\* a configuration was serialized and its analysis failed: the document ends
\* with the status section and the 'analysis failed' message
C28_Witness ==
    /\ GenerationReturned
    /\ pricingModelData = ConfigWithoutPrices
    /\ pricingModelYAML # Null
    /\ pricingModelAnalysis = NullObject
    /\ PositionsOf("# Pricing Model Configuration") = {}
    /\ StatusMessage = AnalysisFailedStatus


(***************************************************************************)
(* C29: the snippet key and the auth library name the same provider.      *)
(***************************************************************************)
\* the auth library a snippet key stands for, Undefined for the key custom
LibraryOfKey(key) ==
    CASE key = "clerk" -> <<"Clerk">>
      [] key = "supabase" -> <<"Supabase">>
      [] key = "nextauth" -> <<"NextAuth">>
      [] OTHER -> Undefined

\* C29: for every analysis document, the key under which
\* buildTemplateReplacements selects the auth snippets, getAuthKey of the
\* document, names the provider that extractCodebaseInfo returns as
\* authLibrary: clerk with Clerk, supabase with Supabase, nextauth with
\* NextAuth, and custom with every other authLibrary.
C29_SnippetKeyNamesAuthLibrary ==
    (xcalls >= 1 /\ Truthy(xdoc))
    => LET authProvider == getAuthKey(xdoc)
       IN IF xinfo.authLibrary \in CanonicalAuthLibraries
          THEN LibraryOfKey(authProvider) = xinfo.authLibrary
          ELSE authProvider = "custom"


(***************************************************************************)
(* C30: the text of a section between its heading and the next heading.    *)
(***************************************************************************)
\* the trimmed text between the first occurrence of a heading and the first
\* occurrence of the closing heading after it; Undefined when the document
\* does not hold the two in this order
SectionText(heading, closing) ==
    LET h == AfterHeading(heading)
        cs == IF h = 0 THEN {}
              ELSE {i \in h..Len(xdoc) : HeadingAt(xdoc, closing, i)}
    IN IF cs = {} THEN Undefined
       ELSE Trim(SubSeq(xdoc, h, Least(cs) - 1))

\* C30: when the document holds '## 4. Customer Model' and later '## 5.',
\* additionalDetails is the trimmed text between the two headings, as
\* stackDetails is the trimmed text between '## 2. File Structure & Paths'
\* and the next '## 3.'; when the headings are missing, each field keeps its
\* default, undefined.
C30_AdditionalDetailsIsSectionFour ==
    (xcalls >= 1 /\ Truthy(xdoc))
    => /\ xinfo.additionalDetails = SectionText(H4, H5dot)
       /\ xinfo.stackDetails = SectionText(H2, H3dot)

=============================================================================
